---- MODULE Spec2Model ----
(***************************************************************************)
(* Model of the dependency resolver of code-modernizer:                    *)
(*   src/modernizer/dependency_analyzer.py  (DependencyAnalyzer)           *)
(*   src/analyzer/dependency_analyzer.py    (the same class, undocumented) *)
(*                                                                         *)
(* A Python str is modelled as a sequence of one-character strings, so     *)
(* that substring tests, prefixes, suffixes, case folding and path         *)
(* normalisation are computed character by character as the library does.  *)
(* A file's text is modelled as the sequence of referencing constructs it  *)
(* contains (kind of construct + captured literal); a regular expression   *)
(* of the pattern tables is modelled by the kinds of construct it matches. *)
(***************************************************************************)
EXTENDS Integers, Sequences, FiniteSets, TLC

(***************************************************************************)
(* Python str primitives                                                   *)
(***************************************************************************)

\* str.startswith
startswith(s, p) ==
    Len(s) >= Len(p) /\ SubSeq(s, 1, Len(p)) = p

\* str.endswith
endswith(s, p) ==
    Len(s) >= Len(p) /\ SubSeq(s, Len(s) - Len(p) + 1, Len(s)) = p

\* `sub in s`
contains(s, sub) ==
    \E i \in 1..(Len(s) - Len(sub) + 1) : SubSeq(s, i, i + Len(sub) - 1) = sub

UpperLetters ==
    <<"A","B","C","D","E","F","G","H","I","J","K","L","M",
      "N","O","P","Q","R","S","T","U","V","W","X","Y","Z">>

LowerLetters ==
    <<"a","b","c","d","e","f","g","h","i","j","k","l","m",
      "n","o","p","q","r","s","t","u","v","w","x","y","z">>

Digits == {"0","1","2","3","4","5","6","7","8","9"}

\* the lower-case letter of each upper-case letter
LowerOf == [k \in 1..Len(UpperLetters) |-> LowerLetters[k]]

UpperIndex(c) == {k \in 1..Len(UpperLetters) : UpperLetters[k] = c}

\* the case folding of the upper-case letters, as a table
LowerOfLetter ==
    [c \in {UpperLetters[k] : k \in 1..Len(UpperLetters)} |->
        LowerOf[CHOOSE k \in UpperIndex(c) : TRUE]]

lower_char(c) ==
    IF c \in DOMAIN LowerOfLetter THEN LowerOfLetter[c] ELSE c

\* str.lower
lower(s) == [i \in 1..Len(s) |-> lower_char(s[i])]

Letters ==
    {LowerLetters[i] : i \in 1..Len(LowerLetters)}
        \cup {UpperLetters[i] : i \in 1..Len(UpperLetters)}

IsLetter(c) == c \in Letters

\* the regular-expression class \w
IsWordChar(c) == IsLetter(c) \/ c \in Digits \/ c = "_"

\* str.replace(old, new) for one-character old and new
replace(s, old, new) == [i \in 1..Len(s) |-> IF s[i] = old THEN new ELSE s[i]]

\* str.split(sep) for a one-character sep: the list of the pieces between
\* the separators (an empty str gives one empty piece)
RECURSIVE split(_, _)
split(s, sep) ==
    IF \A i \in 1..Len(s) : s[i] # sep
    THEN <<s>>
    ELSE LET k == CHOOSE i \in 1..Len(s) :
                     s[i] = sep /\ \A j \in 1..(i - 1) : s[j] # sep
         IN  <<SubSeq(s, 1, k - 1)>> \o split(SubSeq(s, k + 1, Len(s)), sep)

\* sep.join(parts)
RECURSIVE join_str(_, _)
join_str(sep, parts) ==
    IF Len(parts) = 0 THEN <<>>
    ELSE IF Len(parts) = 1 THEN parts[1]
    ELSE parts[1] \o sep \o join_str(sep, Tail(parts))

(***************************************************************************)
(* os.path (POSIX)                                                         *)
(***************************************************************************)

os_path_sep == "/"

\* os.path.isabs
isabs(p) == startswith(p, <<"/">>)

\* os.path.join(a, b)
os_path_join(a, b) ==
    IF startswith(b, <<"/">>) THEN b
    ELSE IF Len(a) = 0 \/ endswith(a, <<"/">>) THEN a \o b
    ELSE a \o <<"/">> \o b

\* the component loop of posixpath.normpath
RECURSIVE norm_comps(_, _, _)
norm_comps(comps, acc, initial_slashes) ==
    IF Len(comps) = 0 THEN acc
    ELSE LET comp == Head(comps)
             rest == Tail(comps)
         IN  IF comp = <<>> \/ comp = <<".">>
             THEN norm_comps(rest, acc, initial_slashes)
             ELSE IF \/ comp # <<".", ".">>
                     \/ (initial_slashes = 0 /\ Len(acc) = 0)
                     \/ (Len(acc) > 0 /\ acc[Len(acc)] = <<".", ".">>)
                  THEN norm_comps(rest, Append(acc, comp), initial_slashes)
                  ELSE IF Len(acc) > 0
                       THEN norm_comps(rest, SubSeq(acc, 1, Len(acc) - 1), initial_slashes)
                       ELSE norm_comps(rest, acc, initial_slashes)

\* os.path.normpath
normpath(path) ==
    IF Len(path) = 0 THEN <<".">>
    ELSE LET or_dot(res) == IF Len(res) = 0 THEN <<".">> ELSE res
             slashes(n) == [k \in 1..n |-> "/"]
             normalized(initial_slashes) ==
                 or_dot(slashes(initial_slashes)
                        \o join_str(<<"/">>, norm_comps(split(path, "/"), <<>>, initial_slashes)))
         IN  normalized(IF ~startswith(path, <<"/">>) THEN 0
                        ELSE IF startswith(path, <<"/", "/">>) /\ ~startswith(path, <<"/", "/", "/">>)
                             THEN 2 ELSE 1)

\* os.getcwd(): the process's working directory
getcwd == <<"/", "w">>

\* os.path.abspath
abspath(p) == normpath(os_path_join(getcwd, p))

\* the non-empty components of a path
NonEmpty(parts) == SelectSeq(parts, LAMBDA x : x # <<>>)

\* len(os.path.commonprefix([a, b])) for two component lists
RECURSIVE common_len(_, _)
common_len(a, b) ==
    IF Len(a) = 0 \/ Len(b) = 0 \/ Head(a) # Head(b) THEN 0
    ELSE 1 + common_len(Tail(a), Tail(b))

\* os.path.relpath(path, start)
relpath(path, start) ==
    LET joined(rel_list) ==
            IF Len(rel_list) = 0 THEN <<".">> ELSE join_str(<<"/">>, rel_list)
        from(start_list, path_list, i) ==
            joined([k \in 1..(Len(start_list) - i) |-> <<".", ".">>]
                   \o SubSeq(path_list, i + 1, Len(path_list)))
        lists(start_list, path_list) ==
            from(start_list, path_list, common_len(start_list, path_list))
    IN  lists(NonEmpty(split(abspath(start), "/")), NonEmpty(split(abspath(path), "/")))

(***************************************************************************)
(* DependencyAnalyzer: classification of a reference                       *)
(***************************************************************************)

\* a character that may start an identifier in the pattern
\* \$[a-zA-Z_\x7f-\xff][a-zA-Z0-9_\x7f-\xff]* (the model's alphabet is ASCII)
IsIdentStart(c) == IsLetter(c) \/ c = "_"

dynamic_indicators ==
    << <<"$", "{">>, <<"}">>, <<"+">>, <<"<", "?", "p", "h", "p">>, <<"?", ">">> >>

\* re.search(r'\$[a-zA-Z_...][a-zA-Z0-9_...]*', path)
has_php_variable(path) ==
    \E i \in 1..(Len(path) - 1) : path[i] = "$" /\ IsIdentStart(path[i + 1])

\* a dynamic test whose indicator list lacks '+'
is_dynamic_no_plus(path) ==
    \/ \E k \in {1, 2, 4, 5} : contains(path, dynamic_indicators[k])
    \/ has_php_variable(path)

\* DependencyAnalyzer.is_dynamic
is_dynamic(path) ==
    \/ \E k \in 1..Len(dynamic_indicators) : contains(path, dynamic_indicators[k])
    \/ has_php_variable(path)

\* re.match(r'^\w+://', path)
has_scheme(path) ==
    \E k \in 1..(Len(path) - 3) :
        /\ \A j \in 1..k : IsWordChar(path[j])
        /\ SubSeq(path, k + 1, k + 3) = <<":", "/", "/">>

\* an external test without the pattern ^//
_is_external_dependency_no_slashes(path) ==
    LET folded == lower(path)
    IN  \/ startswith(folded, <<"h", "t", "t", "p", ":", "/", "/">>)
        \/ startswith(folded, <<"h", "t", "t", "p", "s", ":", "/", "/">>)
        \/ startswith(folded, <<"w", "w", "w", ".">>)
        \/ has_scheme(path)

\* DependencyAnalyzer._is_external_dependency; re.IGNORECASE folds the case
\* of the literal letters of the patterns
_is_external_dependency(path) ==
    LET folded == lower(path)
    IN  \/ startswith(folded, <<"h", "t", "t", "p", ":", "/", "/">>)
        \/ startswith(folded, <<"h", "t", "t", "p", "s", ":", "/", "/">>)
        \/ startswith(path, <<"/", "/">>)
        \/ startswith(folded, <<"w", "w", "w", ".">>)
        \/ has_scheme(path)

image_extensions ==
    << <<".", "j", "p", "g">>, <<".", "j", "p", "e", "g">>, <<".", "p", "n", "g">>,
       <<".", "g", "i", "f">>, <<".", "b", "m", "p">>, <<".", "s", "v", "g">>,
       <<".", "w", "e", "b", "p">> >>

\* an image test that compares the extension case-sensitively
is_image_file_case_sensitive(file_path) ==
    \E k \in 1..Len(image_extensions) : endswith(file_path, image_extensions[k])

\* DependencyAnalyzer.is_image_file
is_image_file(file_path) ==
    LET folded == lower(file_path)
    IN  \E k \in 1..Len(image_extensions) : endswith(folded, image_extensions[k])

(***************************************************************************)
(* DependencyAnalyzer: the pattern tables and the extraction               *)
(*                                                                         *)
(* A construct is [kind, ref]: a piece of a file's text of the given kind  *)
(* whose quoted literal is ref.  A pattern is named by the construct it    *)
(* is written for; PatternMatches says which constructs its regular        *)
(* expression finds.                                                       *)
(*   include        include 'ref'; / require_once "ref";                   *)
(*   use            use ref;                                               *)
(*   script         <script src="ref">                                     *)
(*   echo_script    echo "<script src='ref'>                               *)
(*   link           <link href="ref">                                      *)
(*   img            <img src="ref">                                        *)
(*   import_from    import x from 'ref' / export * from 'ref'              *)
(*   require_call   const x = require('ref')                               *)
(*   import_call    import('ref')                                          *)
(*   fetch          fetch('ref')                                           *)
(*   ajax           $.ajax({url: 'ref'                                     *)
(*   xhr_open       .open('GET', 'ref'                                     *)
(*   css_import     @import 'ref'                                          *)
(*   css_url        url(ref)                                               *)
(***************************************************************************)

php_patterns == <<"include", "use", "script", "echo_script", "link", "img">>

js_patterns == <<"import_from", "require_call", "import_call", "fetch", "ajax", "xhr_open">>

html_patterns == <<"script", "link", "img">>

css_patterns == <<"css_import", "css_url">>

\* whether the regular expression `pattern` finds the construct c
PatternMatches(pattern, c) ==
    CASE pattern = "script" -> c.kind \in {"script", "echo_script"}
      [] pattern = "link"   -> c.kind = "link" /\ endswith(lower(c.ref), <<".", "c", "s", "s">>)
      [] OTHER              -> c.kind = pattern

\* re.findall(pattern, content, re.IGNORECASE): the captured literals, in text order
findall(pattern, content) ==
    LET hits == SelectSeq(content, LAMBDA c : PatternMatches(pattern, c))
    IN  [i \in 1..Len(hits) |-> hits[i].ref]

\* q without the later occurrences of its elements
RECURSIVE Deduplicated(_)
Deduplicated(q) ==
    IF Len(q) = 0 THEN <<>>
    ELSE LET front == Deduplicated(SubSeq(q, 1, Len(q) - 1))
             last  == q[Len(q)]
         IN  IF \E k \in 1..Len(front) : front[k] = last
             THEN front ELSE Append(front, last)

\* an extraction that keeps the external literals
RECURSIVE _extract_dependencies_unfiltered(_, _)
_extract_dependencies_unfiltered(content, patterns) ==
    IF Len(patterns) = 0 THEN <<>>
    ELSE findall(Head(patterns), content)
         \o _extract_dependencies_unfiltered(content, Tail(patterns))

\* DependencyAnalyzer._extract_dependencies
RECURSIVE _extract_dependencies(_, _)
_extract_dependencies(content, patterns) ==
    IF Len(patterns) = 0 THEN <<>>
    ELSE SelectSeq(findall(Head(patterns), content),
                   LAMBDA dep : ~_is_external_dependency(dep))
         \o _extract_dependencies(content, Tail(patterns))

\* an extraction that keeps one match of each literal
_extract_dependencies_unique(content, patterns) ==
    Deduplicated(_extract_dependencies(content, patterns))

\* the matches of a file's text against the patterns of its category
matches_of(content, patterns) == _extract_dependencies(content, patterns)

\* what open(file_path, 'r', encoding='utf-8') and file.read() do with a file
\* in state f: "ok", or the exception raised
ReadRaisesIOError(f) == f.status \in {"missing", "denied"}

ReadRaisesUnicodeDecodeError(f) == f.status = "undecodable"

\* the if/elif chain of extract_dependencies on the file's extension
patterns_for(file_path) ==
    IF endswith(file_path, <<".", "p", "h", "p">>) THEN php_patterns
    ELSE IF endswith(file_path, <<".", "j", "s">>) THEN js_patterns
    ELSE IF \/ endswith(file_path, <<".", "h", "t", "m", "l">>)
            \/ endswith(file_path, <<".", "h", "t", "m">>) THEN html_patterns
    ELSE IF endswith(file_path, <<".", "c", "s", "s">>) THEN css_patterns
    ELSE <<>>

\* the local `dependencies` of extract_dependencies: the list whose elements
\* the last line of the function gives to is_dynamic
dependencies_classified(file_path, f) ==
    IF ReadRaisesIOError(f) THEN <<>>
    ELSE matches_of(f.content, patterns_for(file_path))

\* an extract_dependencies whose last line returns the list as found
extract_dependencies_as_found(file_path, f) == dependencies_classified(file_path, f)

\* DependencyAnalyzer.extract_dependencies, for a read that raises no
\* UnicodeDecodeError (that one is not an IOError and leaves the function)
extract_dependencies(file_path, f) ==
    LET dependencies ==
            IF ReadRaisesIOError(f) THEN <<>>
            ELSE matches_of(f.content, patterns_for(file_path))
    IN  SelectSeq(dependencies, LAMBDA dep : ~is_dynamic(dep))

(***************************************************************************)
(* DependencyAnalyzer: the steps of _analyze_file                          *)
(***************************************************************************)

\* a visited check that never finds the file
already_analyzed_never(file, analyzed) == FALSE

\* `if file in self.analyzed_files: return`
already_analyzed(file, analyzed) == file \in analyzed

\* `if self.is_dynamic(dep): if self.handle_dynamic: ... continue`
skip_dynamic(dep, handle_dyn) == is_dynamic(dep) /\ handle_dyn

\* a resolution that joins the reference under root_dir and does not
\* normalise it
canonical_path_unnormalized(dep, root) ==
    IF isabs(dep) THEN dep ELSE os_path_join(root, dep)

\* full_dep_path before the image test: normpath of the reference itself
\* when absolute, else of the reference joined under root_dir; then
\* normpath once more
canonical_path(dep, root) ==
    LET first == IF isabs(dep) THEN normpath(dep)
                 ELSE normpath(os_path_join(root, dep))
    IN  normpath(first)

\* an image test that does not consult exclude_images
keep_dependency_no_images(full_dep_path, excl_images) ==
    ~is_image_file(full_dep_path)

\* `if not (self.exclude_images and self.is_image_file(full_dep_path))`
keep_dependency(full_dep_path, excl_images) ==
    ~(excl_images /\ is_image_file(full_dep_path))

\* a display form that is not joined back under root_dir
display_path_relative(path, root) ==
    replace(relpath(path, root), os_path_sep, "/")

\* the display form of a path: its root-relative form with the separators
\* replaced by '/', joined back under root_dir
display_path(path, root) ==
    LET rel == replace(relpath(path, root), os_path_sep, "/")
    IN  replace(os_path_join(root, rel), os_path_sep, "/")

\* an edge of the file as given and the canonical target, not brought into
\* display form
make_edge_canonical(file, dep, root) ==
    <<file, canonical_path(dep, root), root>>

\* the edge appended for the reference dep of file
make_edge(file, dep, root) ==
    <<display_path(file, root), display_path(canonical_path(dep, root), root), root>>

\* `edge_list = []` of analyze_dependencies
fresh_edge_list == <<>>

\* a Visited Set that is seeded with the current directory
analyzed_files_seeded == {<<".">>}

\* `self.analyzed_files = set()` of __init__
fresh_analyzed_files == {}

(***************************************************************************)
(* The project on disk                                                     *)
(***************************************************************************)

RootDir == <<"/", "r">>

Name_a_php == <<"a", ".", "p", "h", "p">>
Name_b_php == <<"b", ".", "p", "h", "p">>
Name_c_js == <<"c", ".", "j", "s">>

\* the path the scanner gives a file of the tree: os.path.join(root, file)
ScannedPath(name) == os_path_join(RootDir, name)

File_a == ScannedPath(Name_a_php)
File_b == ScannedPath(Name_b_php)
File_c == ScannedPath(Name_c_js)

ProjectFiles == <<File_a, File_b, File_c>>

\* a project of three files that reference each other in a chain
Name_index_php == <<"i", "n", "d", "e", "x", ".", "p", "h", "p">>
Name_header_php == <<"h", "e", "a", "d", "e", "r", ".", "p", "h", "p">>
Name_style_css == <<"s", "t", "y", "l", "e", ".", "c", "s", "s">>

File_index == ScannedPath(Name_index_php)
File_header == ScannedPath(Name_header_php)
File_style == ScannedPath(Name_style_css)

ChainFiles == <<File_index, File_header, File_style>>

Construct(k, r) == [kind |-> k, ref |-> r]

OkFile(content) == [status |-> "ok", content |-> content]

BadFile(status) == [status |-> status, content |-> <<>>]

ReadFailures == {"missing", "denied", "undecodable"}

\* the references to the project's own files that each file may hold
LocalPool(file) ==
    IF file = File_a
    THEN { Construct("include", <<"b", ".", "p", "h", "p">>),
           Construct("script", <<"c", ".", "j", "s">>) }
    ELSE IF file = File_b
    THEN { Construct("include", <<"a", ".", "p", "h", "p">>),
           Construct("script", <<"c", ".", "j", "s">>) }
    ELSE { Construct("fetch", <<"a", ".", "p", "h", "p">>),
           Construct("import_from", <<".", "/", "c", ".", "j", "s">>) }

\* constructs of a server-script file whose literal is matched twice,
\* external, dynamic or an image
RichPool ==
    { Construct("echo_script", <<"c", ".", "j", "s">>),
      Construct("script", <<"h", "t", "t", "p", "s", ":", "/", "/", "h", "/", "c", ".", "j", "s">>),
      Construct("script", <<"h", "t", "t", "p", ":", "/", "/", "h", "/", "c", ".", "j", "s">>),
      Construct("script", <<"/", "/", "h", "/", "c", ".", "j", "s">>),
      Construct("script", <<"w", "w", "w", ".", "h", ".", "j", "s">>),
      Construct("script", <<"f", "t", "p", ":", "/", "/", "h", "/", "c", ".", "j", "s">>),
      Construct("include", <<"$", "{", "v">>),
      Construct("include", <<"v", "}">>),
      Construct("include", <<"a", "+", "b">>),
      Construct("include", <<"<", "?", "p", "h", "p">>),
      Construct("include", <<"?", ">">>),
      Construct("include", <<"$", "v">>),
      Construct("script", <<"h", "t", "t", "p", "s", ":", "/", "/", "h", "/", "$", "{", "v", "}">>),
      Construct("img", <<"p", ".", "j", "p", "g">>),
      Construct("img", <<"p", ".", "j", "p", "e", "g">>),
      Construct("img", <<"p", ".", "p", "n", "g">>),
      Construct("img", <<"p", ".", "g", "i", "f">>),
      Construct("img", <<"p", ".", "b", "m", "p">>),
      Construct("img", <<"p", ".", "s", "v", "g">>),
      Construct("img", <<"p", ".", "w", "e", "b", "p">>),
      Construct("img", <<"P", ".", "P", "N", "G">>) }

(***************************************************************************)
(* Visualizer: the adjacency mapping and the ASCII tree                    *)
(*                                                                         *)
(* The tree is modelled as the sequence of its lines; a line is            *)
(* [prefix, branch, node, circular]: the indentation pieces, the branch    *)
(* piece, the formatted node and whether ' (circular reference)' follows.  *)
(***************************************************************************)

\* the characters of the model's paths in the order of their code points
CodePoints ==
    <<"$", "+", ".", "/">> \o <<"0","1","2","3","4","5","6","7","8","9">>
    \o <<":", "<", ">", "?">> \o UpperLetters \o <<"_">> \o LowerLetters
    \o <<"{", "}">>

ord(c) == CHOOSE k \in 1..Len(CodePoints) : CodePoints[k] = c

\* a < b for two str
RECURSIVE str_less(_, _)
str_less(a, b) ==
    IF Len(b) = 0 THEN FALSE
    ELSE IF Len(a) = 0 THEN TRUE
    ELSE IF Head(a) = Head(b) THEN str_less(Tail(a), Tail(b))
    ELSE ord(Head(a)) < ord(Head(b))

\* sorted(S) for a set of str
RECURSIVE sorted(_)
sorted(S) ==
    IF S = {} THEN <<>>
    ELSE LET least == CHOOSE x \in S : \A y \in S \ {x} : str_less(x, y)
         IN  <<least>> \o sorted(S \ {least})

\* os.path.basename
basename(p) ==
    LET slashes == {k \in 1..Len(p) : p[k] = "/"}
    IN  IF slashes = {} THEN p
        ELSE SubSeq(p, (CHOOSE k \in slashes : \A j \in slashes : j <= k) + 1, Len(p))

\* Visualizer._format_node
_format_node(node, show_path) == IF show_path THEN node ELSE basename(node)

\* the dict `dependencies` with dependencies[source] = value
dict_set(dependencies, source, value) ==
    [s \in DOMAIN dependencies \cup {source} |->
        IF s = source THEN value ELSE dependencies[s]]

\* a loop whose body assigns {target} to dependencies[source]
RECURSIVE edge_list_to_dict_assigning(_, _)
edge_list_to_dict_assigning(edges, dependencies) ==
    IF Len(edges) = 0 THEN dependencies
    ELSE edge_list_to_dict_assigning(Tail(edges),
             dict_set(dependencies, Head(edges)[1], {Head(edges)[2]}))

\* a conversion that keeps the last target of each source
edge_list_to_dict_last(edges) == edge_list_to_dict_assigning(edges, <<>>)

\* `for edge in edge_list` of edge_list_to_dict, from the dict built so far
RECURSIVE edge_list_to_dict_loop(_, _)
edge_list_to_dict_loop(edges, dependencies) ==
    IF Len(edges) = 0 THEN dependencies
    ELSE LET source  == Head(edges)[1]
             target  == Head(edges)[2]
             present == IF source \in DOMAIN dependencies THEN dependencies
                        ELSE dict_set(dependencies, source, {})
         IN  edge_list_to_dict_loop(Tail(edges),
                 dict_set(present, source, present[source] \cup {target}))

\* Visualizer.edge_list_to_dict; the empty dict is the function of empty domain
edge_list_to_dict(edges) == edge_list_to_dict_loop(edges, <<>>)

\* set().union(*dependencies.values())
all_targets(dependencies) == UNION {dependencies[s] : s \in DOMAIN dependencies}

\* one line of the tree
tree_line(prefix, is_last, node, show_path, circular) ==
    [prefix |-> prefix,
     branch |-> IF is_last THEN "last" ELSE "tee",
     node |-> _format_node(node, show_path),
     circular |-> circular]

\* Visualizer._build_ascii_tree for a node, and its loop over the children
RECURSIVE _build_ascii_tree_node(_, _, _, _, _, _)
RECURSIVE _build_ascii_tree_children(_, _, _, _, _, _, _)
_build_ascii_tree_node(dependencies, show_path, node, prefix, is_last, visited) ==
    IF node \in visited
    THEN <<tree_line(prefix, is_last, node, show_path, TRUE)>>
    ELSE <<tree_line(prefix, is_last, node, show_path, FALSE)>>
         \o (IF node \in DOMAIN dependencies
             THEN _build_ascii_tree_children(dependencies, show_path,
                      sorted(dependencies[node]), 1,
                      Append(prefix, IF is_last THEN "blank" ELSE "bar"),
                      visited \cup {node}, <<>>)
             ELSE <<>>)

_build_ascii_tree_children(dependencies, show_path, children, i, prefix, visited, tree) ==
    IF i > Len(children) THEN tree
    ELSE _build_ascii_tree_children(dependencies, show_path, children, i + 1, prefix, visited,
             tree \o _build_ascii_tree_node(dependencies, show_path, children[i],
                                            prefix, i = Len(children), visited))

\* ''.join(... for root in sorted(root_nodes))
RECURSIVE join_trees(_, _, _)
join_trees(dependencies, show_path, roots) ==
    IF Len(roots) = 0 THEN <<>>
    ELSE _build_ascii_tree_node(dependencies, show_path, Head(roots), <<>>, TRUE, {})
         \o join_trees(dependencies, show_path, Tail(roots))

\* Visualizer._build_ascii_tree(dependencies, show_path): the root nodes are
\* the nodes without an incoming edge
_build_ascii_tree(dependencies, show_path) ==
    LET all_nodes  == (DOMAIN dependencies) \cup all_targets(dependencies)
        root_nodes == all_nodes \ all_targets(dependencies)
    IN  join_trees(dependencies, show_path, sorted(root_nodes))

\* nothing printed yet
no_graph == [printed |-> FALSE, show_path |-> FALSE, lines |-> <<>>]

(***************************************************************************)
(* DirScanner: discovery of the candidate files                            *)
(*                                                                         *)
(* The root tree is [files, sub]: the listing of the root directory and    *)
(* one subdirectory [name, files]; a listing is a sequence of entries      *)
(* [name, size] in the order os.walk gives them.                           *)
(***************************************************************************)

library_indicators ==
    << <<"v", "e", "n", "d", "o", "r">>, <<"n", "o", "d", "e", "_", "m", "o", "d", "u", "l", "e", "s">>, <<"l", "i", "b">>, <<"l", "i", "b", "s">>, <<"l", "i", "b", "r", "a", "r", "y">>, <<"l", "i", "b", "r", "a", "r", "i", "e", "s">>,
       <<"f", "r", "a", "m", "e", "w", "o", "r", "k">>, <<"f", "r", "a", "m", "e", "w", "o", "r", "k", "s">>, <<"d", "i", "s", "t">>, <<"b", "u", "i", "l", "d">>, <<"e", "x", "t", "e", "r", "n", "a", "l">>, <<"t", "h", "i", "r", "d", "-", "p", "a", "r", "t", "y">> >>

library_file_prefixes ==
    << <<"j", "q", "u", "e", "r", "y">>, <<"b", "o", "o", "t", "s", "t", "r", "a", "p">>, <<"v", "u", "e">>, <<"r", "e", "a", "c", "t">>, <<"a", "n", "g", "u", "l", "a", "r">>, <<"l", "o", "d", "a", "s", "h">>, <<"m", "o", "m", "e", "n", "t">> >>

\* the endings the minimized_patterns \.min\.(js|css)$, -min\.(js|css)$ and
\* \.bundle\.(js|css)$ search for
minimized_endings ==
    << <<".", "m", "i", "n", ".", "j", "s">>, <<".", "m", "i", "n", ".", "c", "s", "s">>, <<"-", "m", "i", "n", ".", "j", "s">>, <<"-", "m", "i", "n", ".", "c", "s", "s">>, <<".", "b", "u", "n", "d", "l", "e", ".", "j", "s">>, <<".", "b", "u", "n", "d", "l", "e", ".", "c", "s", "s">> >>

max_file_size == 100 * 1024

\* the defaults of DirScanner.__init__
exclude_libraries == TRUE

exclude_minimized == TRUE

relevant_extensions == << <<".", "p", "h", "p">>, <<".", "j", "s">>, <<".", "h", "t", "m", "l">>, <<".", "h", "t", "m">>, <<".", "c", "s", "s">> >>

\* file.endswith(('.php', '.js', '.html', '.htm', '.css'))
has_relevant_extension(file) ==
    \E k \in 1..Len(relevant_extensions) : endswith(file, relevant_extensions[k])

\* DirScanner._is_library_directory
_is_library_directory(directory) ==
    \E k \in 1..Len(library_indicators) : contains(lower(directory), library_indicators[k])

\* DirScanner._is_library_file
_is_library_file(file) ==
    \E k \in 1..Len(library_file_prefixes) :
        startswith(lower(basename(file)), library_file_prefixes[k])

\* DirScanner._is_minimized_file
_is_minimized_file(file) ==
    \E k \in 1..Len(minimized_endings) :
        endswith(lower(basename(file)), minimized_endings[k])

\* DirScanner._is_large_file, for a file of the given size
_is_large_file(size) == size > max_file_size

\* DirScanner._should_include_file
_should_include_file(file_path, size) ==
    IF exclude_libraries /\ _is_library_file(file_path) THEN FALSE
    ELSE IF exclude_minimized /\ _is_minimized_file(file_path) THEN FALSE
    ELSE IF _is_large_file(size) THEN FALSE
    ELSE TRUE

\* os.walk(root): the (root, files) pairs top-down; with prune, a
\* subdirectory that `dirs[:] = [...]` removed is not entered
os_walk(root, t, prune) ==
    << [root |-> root, files |-> t.files] >>
    \o (IF prune /\ _is_library_directory(t.sub.name) THEN <<>>
        ELSE << [root |-> os_path_join(root, t.sub.name), files |-> t.sub.files] >>)

None == <<>>

\* a file name is found only among the names of a directory's listing
\* (a name that holds a '/' is in none)
_find_file_root_only(file, root, t) ==
    IF \E j \in 1..Len(t.files) : t.files[j].name = file
    THEN os_path_join(root, file) ELSE None

\* DirScanner._find_file
_find_file(file, root, t) ==
    LET walk == os_walk(root, t, FALSE)
        hits == {k \in 1..Len(walk) :
                    \E j \in 1..Len(walk[k].files) : walk[k].files[j].name = file}
    IN  IF hits = {} THEN None
        ELSE os_path_join(walk[CHOOSE k \in hits : \A h \in hits : k <= h].root, file)

\* the files of one directory that the walk of find_entry_points appends
included_of(dir) ==
    LET kept == SelectSeq(dir.files, LAMBDA f :
                    /\ has_relevant_extension(f.name)
                    /\ _should_include_file(os_path_join(dir.root, f.name), f.size))
    IN  [k \in 1..Len(kept) |-> os_path_join(dir.root, kept[k].name)]

\* the else branch of DirScanner.find_entry_points
RECURSIVE walk_entry_points(_)
walk_entry_points(walk) ==
    IF Len(walk) = 0 THEN <<>>
    ELSE included_of(Head(walk)) \o walk_entry_points(Tail(walk))

\* `if files:` for the argument of find_entry_points
names_given(arg) == arg.given /\ arg.list # <<>>

Entry(n, s) == [name |-> n, size |-> s]

\* the files a directory of the tree may hold: two eligible ones (one of
\* them of exactly the largest size allowed) and four that the walk leaves
\* out (extension, library prefix, minimized, too large)
EntryPool ==
    { Entry(<<"a", ".", "p", "h", "p">>, max_file_size),
      Entry(<<"c", ".", "j", "s">>, 1),
      Entry(<<"n", ".", "t", "x", "t">>, 1),
      Entry(<<"j", "q", "u", "e", "r", "y", ".", "j", "s">>, 1),
      Entry(<<"m", ".", "m", "i", "n", ".", "j", "s">>, 1),
      Entry(<<"b", ".", "p", "h", "p">>, max_file_size + 1) }

SubdirectoryNames == { <<"s">>, <<"l", "i", "b">> }

\* the names that can be given to find_entry_points; z.php is in no tree
NamePool == { <<"a", ".", "p", "h", "p">>, <<"c", ".", "j", "s">>, <<"z", ".", "p", "h", "p">> }

(***************************************************************************)
(* Bounds                                                                  *)
(***************************************************************************)

\* longest candidate file list
MaxFiles == 3

\* referencing constructs plus unreadable files in one project
MaxRefs == 3

\* calls of analyze_dependencies on one analyzer
MaxCalls == 2

\* files in the root tree given to the scanner
MaxEntries == 2

\* names given to find_entry_points
MaxNames == 2

\* longest edge list given to edge_list_to_dict
MaxEdges == 3

(***************************************************************************)
(* State                                                                   *)
(***************************************************************************)

VARIABLES
    files,            \* self.files: the candidate file list
    root_dir,         \* self.root_dir
    exclude_images,   \* self.exclude_images
    handle_dynamic,   \* self.handle_dynamic
    analyzed_files,   \* self.analyzed_files: the Visited Set
    disk,             \* the files of the project: path -> [status, content]
    edge_list,        \* the local edge_list of the running analyze_dependencies
    stack,            \* the _analyze_file calls in progress: [file, deps, i]
    idx,              \* position of `for file in self.files`
    pc,               \* "constructed", "running", "returned" or "raised"
    calls,            \* analyze_dependencies calls begun
    returned,         \* the edge lists returned so far, one per completed call
    extracted,        \* history: files given to extract_dependencies in this call
    edge_refs,        \* history: for each edge of edge_list, its [file, dep, via, pos, fresh]
    graph,            \* what visualize_ascii_graph printed for the returned list
    tree,             \* DirScanner: the root tree on disk
    names,            \* the argument `files` of find_entry_points: [given, list]
    entry_points,     \* the local entry_points of find_entry_points
    name_idx,         \* position of `for file in files`
    scan_pc,          \* "idle", "called", "collected", "returned" or "raised"
    scan_result,      \* what find_entry_points returned or raised
    dict_calls,       \* Visualizer: the edge_list_to_dict calls made: [edge_list, dependencies]
    twin              \* the DependencyAnalyzer of src/analyzer constructed with the same
                      \* arguments: [analyzed_files, edge_list, stack, idx, pc, returned]

resolver_vars ==
    <<files, root_dir, exclude_images, handle_dynamic, analyzed_files, disk,
      edge_list, stack, idx, pc, calls, returned, extracted, edge_refs, graph>>

scan_vars == <<tree, names, entry_points, name_idx, scan_pc, scan_result>>

render_vars == <<dict_calls>>

twin_vars == <<twin>>

vars == <<resolver_vars, scan_vars, render_vars, twin_vars>>

\* a test that accepts every file of the project, candidate or not
is_candidate_on_disk(full_dep_path, candidates) == full_dep_path \in DOMAIN disk

\* a membership test that finds no file
is_candidate_never(full_dep_path, candidates) == FALSE

\* `if full_dep_path in self.files`
is_candidate(full_dep_path, candidates) ==
    \E k \in 1..Len(candidates) : candidates[k] = full_dep_path

config == <<files, root_dir, exclude_images, handle_dynamic, disk>>

(***************************************************************************)
(* Initial states: a constructed analyzer over a project on disk           *)
(***************************************************************************)

SeqsUpTo(S, n) == UNION {[1..k -> S] : k \in 0..n}

RECURSIVE NoDuplicates(_)
NoDuplicates(q) ==
    \/ Len(q) = 0
    \/ /\ \A k \in 2..Len(q) : q[k] # q[1]
       /\ NoDuplicates(Tail(q))

\* what the scanner can return: distinct files of the tree, in any order
CandidateLists ==
    {q \in SeqsUpTo({ProjectFiles[k] : k \in 1..Len(ProjectFiles)}, MaxFiles) :
        NoDuplicates(q)}

ChainCandidateLists ==
    {q \in SeqsUpTo({ChainFiles[k] : k \in 1..Len(ChainFiles)}, MaxFiles) :
        NoDuplicates(q)}

\* index.php is <?php include 'header.php'; ?>, header.php is
\* <link href="style.css">, style.css holds no reference
ChainDisk ==
    [f \in {File_index, File_header, File_style} |->
        IF f = File_index THEN OkFile(<<Construct("include", Name_header_php)>>)
        ELSE IF f = File_header THEN OkFile(<<Construct("link", Name_style_css)>>)
        ELSE OkFile(<<>>)]

Cost(f) == IF f.status = "ok" THEN Len(f.content) ELSE 1

FileStatesWithin(file, budget) ==
    {OkFile(c) : c \in SeqsUpTo(LocalPool(file), budget)}
    \cup (IF budget >= 1 THEN {BadFile(st) : st \in ReadFailures} ELSE {})

MakeDisk(fa, fb, fc) ==
    [f \in {File_a, File_b, File_c} |->
        IF f = File_a THEN fa ELSE IF f = File_b THEN fb ELSE fc]

\* projects whose references are all among their own files
GraphDisks ==
    UNION { UNION { { MakeDisk(fa, fb, fc) :
                        fc \in FileStatesWithin(File_c, MaxRefs - Cost(fa) - Cost(fb)) } :
                    fb \in FileStatesWithin(File_b, MaxRefs - Cost(fa)) } :
            fa \in FileStatesWithin(File_a, MaxRefs) }

\* q with x inserted before position k
InsertAt(q, k, x) == SubSeq(q, 1, k - 1) \o <<x>> \o SubSeq(q, k, Len(q))

\* projects in which a.php holds one construct of RichPool among references
\* to the project's own files
RichDisks ==
    UNION { UNION { { MakeDisk(OkFile(InsertAt(q, k, c)), OkFile(<<>>), OkFile(<<>>)) :
                        k \in 1..(Len(q) + 1) } :
                    q \in SeqsUpTo(LocalPool(File_a), MaxRefs - 1) } :
            c \in RichPool }

InitGraph ==
    /\ root_dir = RootDir
    /\ files \in CandidateLists
    /\ exclude_images = TRUE
    /\ handle_dynamic = TRUE
    /\ disk \in GraphDisks

InitRich ==
    /\ root_dir = RootDir
    /\ files = <<File_a, File_b>>
    /\ exclude_images \in BOOLEAN
    /\ handle_dynamic \in BOOLEAN
    /\ disk \in RichDisks

\* the root directories given to the analyzer: absolute, or relative to the
\* working directory
RelativeRootDir == <<"r">>

RootDirs == {RootDir, RelativeRootDir}

\* spellings of references to b/x.js, a/x.js and ../x.js under the root
\* directory, relative and (for each of the roots) absolute
PathRefs(root) ==
    { <<"b", "/", "x", ".", "j", "s">>,
      <<".", "/", "a", "/", ".", ".", "/", "b", "/", "x", ".", "j", "s">>,
      <<"b", "/", "/", "x", ".", "j", "s">>,
      <<"b", "/", ".", "/", "x", ".", "j", "s">>,
      <<"a", "/", "x", ".", "j", "s">>,
      <<".", ".", "/", "x", ".", "j", "s">>,
      <<".", ".", "/", "y", "/", ".", ".", "/", "x", ".", "j", "s">>,
      abspath(root) \o <<"/", "b", "/", "x", ".", "j", "s">>,
      abspath(root) \o <<"/", "a", "/", ".", ".", "/", "b", "/", "x", ".", "j", "s">> }

\* projects whose one candidate a.php includes two files by such spellings
PathDisks(root) ==
    { [f \in {os_path_join(root, Name_a_php)} |->
          OkFile(<<Construct("include", r1), Construct("include", r2)>>)] :
        r1 \in PathRefs(root), r2 \in PathRefs(root) }

InitPaths ==
    /\ root_dir \in RootDirs
    /\ files = <<os_path_join(root_dir, Name_a_php)>>
    /\ exclude_images = TRUE
    /\ handle_dynamic = TRUE
    /\ disk \in PathDisks(root_dir)

InitChain ==
    /\ root_dir = RootDir
    /\ files \in ChainCandidateLists
    /\ exclude_images \in BOOLEAN
    /\ handle_dynamic \in BOOLEAN
    /\ disk = ChainDisk

no_result == [outcome |-> "none", value |-> <<>>]

\* no DirScanner call in progress
ScanIdle ==
    /\ tree = [files |-> <<>>, sub |-> [name |-> <<"s">>, files |-> <<>>]]
    /\ names = [given |-> FALSE, list |-> <<>>]
    /\ entry_points = <<>>
    /\ name_idx = 1
    /\ scan_pc = "idle"
    /\ scan_result = no_result

\* no DependencyAnalyzer of src/analyzer was constructed
no_twin ==
    [analyzed_files |-> {}, edge_list |-> <<>>, stack |-> <<>>, idx |-> 1,
     pc |-> "absent", returned |-> <<>>, handle_dynamic |-> FALSE]

\* DependencyAnalyzer.__init__
InitAnalyzer ==
    /\ ScanIdle
    /\ InitGraph \/ InitRich \/ InitChain \/ InitPaths
    /\ analyzed_files = fresh_analyzed_files
    /\ edge_list = <<>>
    /\ stack = <<>>
    /\ idx = 1
    /\ pc = "constructed"
    /\ calls = 0
    /\ returned = <<>>
    /\ extracted = <<>>
    /\ edge_refs = <<>>
    /\ graph = no_graph
    /\ dict_calls = <<>>

Init == InitAnalyzer /\ twin = no_twin

(***************************************************************************)
(* Actions                                                                 *)
(***************************************************************************)

\* the frames whose `for dep in dependencies` is exhausted return
RECURSIVE Unwind(_)
Unwind(stk) ==
    IF Len(stk) > 0 /\ stk[Len(stk)].i > Len(stk[Len(stk)].deps)
    THEN Unwind(SubSeq(stk, 1, Len(stk) - 1))
    ELSE stk

\* the frame of a call of _analyze_file that has reached its loop; via is
\* history: 0 for a call made by analyze_dependencies, and for a recursive
\* call the position in edge_list of the edge that led to it
Frame(file, via) ==
    [file |-> file, deps |-> extract_dependencies(file, disk[file]), i |-> 1,
     via |-> via]

\* a call whose loop is run after the loops of the calls in progress
_analyze_file_deferred(file, via, analyzed, stk, extr) ==
    IF file \in analyzed
    THEN [analyzed |-> analyzed, stack |-> stk, extracted |-> extr, raised |-> FALSE]
    ELSE IF ReadRaisesUnicodeDecodeError(disk[file])
    THEN [analyzed |-> analyzed \cup {file}, stack |-> stk,
          extracted |-> Append(extr, file), raised |-> TRUE]
    ELSE [analyzed |-> analyzed \cup {file},
          stack |-> <<Frame(file, via)>> \o stk,
          extracted |-> Append(extr, file), raised |-> FALSE]

\* a call self._analyze_file(file, edge_list) up to its loop: the visited
\* check, the marking and the extraction
_analyze_file(file, via, analyzed, stk, extr) ==
    IF already_analyzed(file, analyzed)
    THEN [analyzed |-> analyzed, stack |-> stk, extracted |-> extr, raised |-> FALSE]
    ELSE IF ReadRaisesUnicodeDecodeError(disk[file])
    THEN [analyzed |-> analyzed \cup {file}, stack |-> stk,
          extracted |-> Append(extr, file), raised |-> TRUE]
    ELSE [analyzed |-> analyzed \cup {file},
          stack |-> Append(stk, Frame(file, via)),
          extracted |-> Append(extr, file), raised |-> FALSE]

\* the effect of a call of _analyze_file on the state
Called(r) ==
    /\ analyzed_files' = r.analyzed
    /\ extracted' = r.extracted
    /\ IF r.raised
       THEN pc' = "raised" /\ stack' = <<>>
       ELSE pc' = pc /\ stack' = Unwind(r.stack)

(***************************************************************************)
(* The DependencyAnalyzer of src/analyzer/dependency_analyzer.py, built    *)
(* with the same files, root_dir, exclude_images and handle_dynamic over   *)
(* the same disk. Its state is the record twin; its methods are functions  *)
(* of that record. The pattern tables of the two classes are the same      *)
(* lists of regular expressions, findall and PatternMatches are shared.    *)
(***************************************************************************)

\* analyzer DependencyAnalyzer.is_dynamic
is_dynamic_analyzer(path) ==
    \/ \E k \in 1..Len(dynamic_indicators) : contains(path, dynamic_indicators[k])
    \/ has_php_variable(path)

\* analyzer DependencyAnalyzer._is_external_dependency
_is_external_dependency_analyzer(path) ==
    LET folded == lower(path)
    IN  \/ startswith(folded, <<"h", "t", "t", "p", ":", "/", "/">>)
        \/ startswith(folded, <<"h", "t", "t", "p", "s", ":", "/", "/">>)
        \/ startswith(path, <<"/", "/">>)
        \/ startswith(folded, <<"w", "w", "w", ".">>)
        \/ has_scheme(path)

\* analyzer DependencyAnalyzer.is_image_file
is_image_file_analyzer(file_path) ==
    LET folded == lower(file_path)
    IN  \E k \in 1..Len(image_extensions) : endswith(folded, image_extensions[k])

\* analyzer DependencyAnalyzer._extract_dependencies
RECURSIVE _extract_dependencies_analyzer(_, _)
_extract_dependencies_analyzer(content, patterns) ==
    IF Len(patterns) = 0 THEN <<>>
    ELSE SelectSeq(findall(Head(patterns), content),
                   LAMBDA dep : ~_is_external_dependency_analyzer(dep))
         \o _extract_dependencies_analyzer(content, Tail(patterns))

\* analyzer DependencyAnalyzer.extract_dependencies, for a read that raises
\* no UnicodeDecodeError
extract_dependencies_analyzer(file_path, f) ==
    LET dependencies ==
            IF ReadRaisesIOError(f) THEN <<>>
            ELSE _extract_dependencies_analyzer(f.content, patterns_for(file_path))
    IN  SelectSeq(dependencies, LAMBDA dep : ~is_dynamic_analyzer(dep))

\* analyzer DependencyAnalyzer._analyze_file up to its loop, called in state t
_analyze_file_analyzer(file, t) ==
    IF file \in t.analyzed_files
    THEN [t EXCEPT !.stack = Unwind(t.stack)]
    ELSE IF ReadRaisesUnicodeDecodeError(disk[file])
    THEN [t EXCEPT !.analyzed_files = @ \cup {file}, !.stack = <<>>, !.pc = "raised"]
    ELSE [t EXCEPT !.analyzed_files = @ \cup {file},
                   !.stack = Unwind(Append(t.stack,
                       [file |-> file,
                        deps |-> extract_dependencies_analyzer(file, disk[file]),
                        i    |-> 1]))]

\* one iteration of `for dep in dependencies` of the innermost call
for_dep_analyzer(t) ==
    LET top            == t.stack[Len(t.stack)]
        dep            == top.deps[top.i]
        stk1           == [t.stack EXCEPT ![Len(t.stack)].i = top.i + 1]
        first          == IF isabs(dep) THEN normpath(dep)
                          ELSE normpath(os_path_join(root_dir, dep))
        full_dep_path  == normpath(first)
        rel_file       == replace(relpath(top.file, root_dir), os_path_sep, "/")
        rel_dep_path   == replace(relpath(full_dep_path, root_dir), os_path_sep, "/")
        full_file_path == replace(os_path_join(root_dir, rel_file), os_path_sep, "/")
        shown_dep_path == replace(os_path_join(root_dir, rel_dep_path), os_path_sep, "/")
        appended       == [t EXCEPT !.edge_list = Append(@, <<full_file_path, shown_dep_path, root_dir>>),
                                    !.stack = stk1]
    IN  IF \/ is_dynamic_analyzer(dep) /\ t.handle_dynamic
           \/ exclude_images /\ is_image_file_analyzer(full_dep_path)
        THEN [t EXCEPT !.stack = Unwind(stk1)]
        ELSE IF \E k \in 1..Len(files) : files[k] = shown_dep_path
             THEN _analyze_file_analyzer(shown_dep_path, appended)
             ELSE [appended EXCEPT !.stack = Unwind(stk1)]

\* analyzer DependencyAnalyzer.analyze_dependencies is called
twin_analyze_dependencies(t) ==
    IF t.pc \in {"constructed", "returned"}
    THEN [t EXCEPT !.edge_list = <<>>, !.idx = 1, !.pc = "running"]
    ELSE t

\* the next step of the running analyze_dependencies of src/analyzer: an
\* iteration of the innermost loop, else a root call, else the return
twin_step(t) ==
    IF t.pc # "running" THEN t
    ELSE IF Len(t.stack) > 0 THEN for_dep_analyzer(t)
    ELSE IF t.idx <= Len(files)
         THEN LET r == _analyze_file_analyzer(files[t.idx], t)
              IN  IF r.pc = "raised" THEN r ELSE [r EXCEPT !.idx = @ + 1]
    ELSE [t EXCEPT !.pc = "returned", !.returned = Append(@, t.edge_list)]

\* analyze_dependencies is called
analyze_dependencies ==
    /\ pc \in {"constructed", "returned"}
    /\ calls < MaxCalls
    /\ calls' = calls + 1
    /\ edge_list' = fresh_edge_list
    /\ edge_refs' = <<>>
    /\ extracted' = <<>>
    /\ idx' = 1
    /\ pc' = "running"
    /\ graph' = no_graph
    /\ twin' = twin_analyze_dependencies(twin)
    /\ UNCHANGED <<config, analyzed_files, stack, returned, scan_vars, render_vars>>

\* one iteration of `for file in self.files`: the root call of _analyze_file
for_file ==
    /\ pc = "running"
    /\ stack = <<>>
    /\ idx <= Len(files)
    /\ LET r == _analyze_file(files[idx], 0, analyzed_files, <<>>, extracted)
       IN  /\ Called(r)
           /\ idx' = IF r.raised THEN idx ELSE idx + 1
    /\ twin' = twin_step(twin)
    /\ UNCHANGED <<config, edge_list, calls, returned, edge_refs, graph, scan_vars, render_vars>>

\* one iteration of `for dep in dependencies` of the innermost call
for_dep ==
    /\ pc = "running"
    /\ Len(stack) > 0
    /\ LET top  == stack[Len(stack)]
           dep  == top.deps[top.i]
           stk1 == [stack EXCEPT ![Len(stack)].i = top.i + 1]
           full == canonical_path(dep, root_dir)
           edge == make_edge(top.file, dep, root_dir)
       IN  IF skip_dynamic(dep, handle_dynamic) \/ ~keep_dependency(full, exclude_images)
           THEN /\ stack' = Unwind(stk1)
                /\ UNCHANGED <<analyzed_files, extracted, pc, edge_list, edge_refs>>
           ELSE /\ edge_list' = Append(edge_list, edge)
                /\ edge_refs' = Append(edge_refs, [file |-> top.file, dep |-> dep,
                                                   via |-> top.via, pos |-> top.i,
                                                   fresh |-> edge[2] \notin analyzed_files])
                /\ IF is_candidate(edge[2], files)
                   THEN Called(_analyze_file(edge[2], Len(edge_list) + 1,
                                             analyzed_files, stk1, extracted))
                   ELSE /\ stack' = Unwind(stk1)
                        /\ UNCHANGED <<analyzed_files, extracted, pc>>
    /\ twin' = twin_step(twin)
    /\ UNCHANGED <<config, idx, calls, returned, graph, scan_vars, render_vars>>

\* `return edge_list`
return_edge_list ==
    /\ pc = "running"
    /\ stack = <<>>
    /\ idx > Len(files)
    /\ pc' = "returned"
    /\ returned' = Append(returned, edge_list)
    /\ twin' = twin_step(twin)
    /\ UNCHANGED <<config, analyzed_files, edge_list, stack, idx, calls,
                   extracted, edge_refs, graph, scan_vars, render_vars>>

\* the argument show_path of the calls of visualize_ascii_graph
ShowPathArguments == {FALSE}

\* Visualizer.visualize_ascii_graph on the edge list just returned
visualize_ascii_graph ==
    /\ pc = "returned"
    /\ ~graph.printed
    /\ \E show_path \in ShowPathArguments :
          graph' = [printed |-> TRUE, show_path |-> show_path,
                    lines |-> _build_ascii_tree(edge_list_to_dict(edge_list), show_path)]
    /\ UNCHANGED <<config, analyzed_files, edge_list, stack, idx, pc, calls,
                   returned, extracted, edge_refs, scan_vars, render_vars, twin_vars>>

Next ==
    \/ analyze_dependencies
    \/ for_file
    \/ for_dep
    \/ return_edge_list
    \/ visualize_ascii_graph

Spec == Init /\ [][Next]_vars

\* the resolver alone: calls of analyze_dependencies whose result is not
\* printed
NextResolver ==
    \/ analyze_dependencies
    \/ for_file
    \/ for_dep
    \/ return_edge_list

SpecResolver == Init /\ [][NextResolver]_vars

(***************************************************************************)
(* The two DependencyAnalyzer classes side by side: both are constructed   *)
(* with the same arguments and every step of one is a step of the other    *)
(***************************************************************************)

\* analyzer DependencyAnalyzer.__init__
twin_constructed ==
    [no_twin EXCEPT !.pc = "constructed", !.handle_dynamic = handle_dynamic]

InitTwin == InitAnalyzer /\ twin = twin_constructed

NextTwin ==
    \/ analyze_dependencies
    \/ for_file
    \/ for_dep
    \/ return_edge_list

SpecTwin == InitTwin /\ [][NextTwin]_vars

\* DependencyAnalyzer.__init__ of src/analyzer with the other value of
\* handle_dynamic, the remaining arguments the same
twin_constructed_opposite ==
    [twin_constructed EXCEPT !.handle_dynamic = ~handle_dynamic]

InitFlag == InitAnalyzer /\ twin = twin_constructed_opposite

SpecFlag == InitFlag /\ [][NextTwin]_vars

(***************************************************************************)
(* Discovery: a call of DirScanner.find_entry_points on a root tree        *)
(***************************************************************************)

\* the listings of a directory: distinct files in any order
Listings(n) == {q \in SeqsUpTo(EntryPool, n) : NoDuplicates(q)}

Trees ==
    UNION { UNION { { [files |-> r, sub |-> [name |-> d, files |-> s]] :
                        d \in SubdirectoryNames } :
                    s \in Listings(MaxEntries - Len(r)) } :
            r \in Listings(MaxEntries) }

\* find_entry_points() and find_entry_points(files) for a list of names
NameArguments ==
    {[given |-> FALSE, list |-> <<>>]}
    \cup {[given |-> TRUE, list |-> q] : q \in SeqsUpTo(NamePool, MaxNames)}

\* no analyzer is at work while the scanner runs
ResolverIdle ==
    /\ twin = no_twin
    /\ files = <<>>
    /\ root_dir = RootDir
    /\ exclude_images = TRUE
    /\ handle_dynamic = TRUE
    /\ analyzed_files = fresh_analyzed_files
    /\ disk = <<>>
    /\ edge_list = <<>>
    /\ stack = <<>>
    /\ idx = 1
    /\ pc = "constructed"
    /\ calls = 0
    /\ returned = <<>>
    /\ extracted = <<>>
    /\ edge_refs = <<>>
    /\ graph = no_graph

\* DirScanner(root_dir).find_entry_points(names) is called
InitScan ==
    /\ ResolverIdle
    /\ tree \in Trees
    /\ names \in NameArguments
    /\ entry_points = <<>>
    /\ name_idx = 1
    /\ scan_pc = "called"
    /\ scan_result = no_result
    /\ dict_calls = <<>>

FileNotFoundError == [outcome |-> "FileNotFoundError", value |-> <<>>]

\* one iteration of `for file in files` of find_entry_points
find_named_file ==
    /\ scan_pc = "called"
    /\ names_given(names)
    /\ LET file_path == _find_file(names.list[name_idx], RootDir, tree)
       IN  IF file_path # None
           THEN /\ entry_points' = Append(entry_points, file_path)
                /\ name_idx' = name_idx + 1
                /\ scan_pc' = IF name_idx = Len(names.list) THEN "collected" ELSE "called"
                /\ UNCHANGED scan_result
           ELSE /\ scan_result' = FileNotFoundError
                /\ scan_pc' = "raised"
                /\ UNCHANGED <<entry_points, name_idx>>
    /\ UNCHANGED <<tree, names, resolver_vars, render_vars, twin_vars>>

\* the walk of the root tree, when no name was given
walk_root_tree ==
    /\ scan_pc = "called"
    /\ ~names_given(names)
    /\ entry_points' = walk_entry_points(os_walk(RootDir, tree, exclude_libraries))
    /\ scan_pc' = "collected"
    /\ UNCHANGED <<tree, names, name_idx, scan_result, resolver_vars, render_vars, twin_vars>>

\* `if not entry_points: raise FileNotFoundError(...)`, `return entry_points`
return_entry_points ==
    /\ scan_pc = "collected"
    /\ IF entry_points = <<>>
       THEN scan_result' = FileNotFoundError /\ scan_pc' = "raised"
       ELSE /\ scan_result' = [outcome |-> "returned", value |-> entry_points]
            /\ scan_pc' = "returned"
    /\ UNCHANGED <<tree, names, entry_points, name_idx, resolver_vars, render_vars, twin_vars>>

NextScan ==
    \/ find_named_file
    \/ walk_root_tree
    \/ return_entry_points

SpecScan == InitScan /\ [][NextScan]_vars

(***************************************************************************)
(* The conversion of an edge list: a Visualizer is given an edge list,     *)
(* and then the same edges in another order, with an edge repeated, or     *)
(* with another root directory in an edge                                  *)
(***************************************************************************)

\* edges between a.php and b.php, with the root directory /r or r
EdgePool ==
    { <<s, t, r>> : s \in {File_a, File_b}, t \in {File_a, File_b},
                   r \in {RootDir, RelativeRootDir} }

EdgeLists == SeqsUpTo(EdgePool, MaxEdges)

\* Visualizer(root_dir): no conversion made yet
InitDict ==
    /\ ResolverIdle
    /\ ScanIdle
    /\ dict_calls = <<>>

\* the call edge_list_to_dict(edges)
Converted(edges) ==
    /\ dict_calls' = Append(dict_calls,
           [edge_list |-> edges, dependencies |-> edge_list_to_dict(edges)])
    /\ UNCHANGED <<resolver_vars, scan_vars, twin_vars>>

\* q with the elements at i and j exchanged
Exchanged(q, i, j) ==
    [k \in 1..Len(q) |-> IF k = i THEN q[j] ELSE IF k = j THEN q[i] ELSE q[k]]

convert_edge_list ==
    /\ dict_calls = <<>>
    /\ \E edges \in EdgeLists : Converted(edges)

convert_reordered ==
    /\ Len(dict_calls) = 1
    /\ LET edges == dict_calls[1].edge_list
       IN  \E i \in 1..Len(edges) : \E j \in (i + 1)..Len(edges) :
              Converted(Exchanged(edges, i, j))

convert_repeated ==
    /\ Len(dict_calls) = 1
    /\ LET edges == dict_calls[1].edge_list
       IN  \E k \in 1..Len(edges) : \E at \in 1..(Len(edges) + 1) :
              Converted(InsertAt(edges, at, edges[k]))

convert_relabelled ==
    /\ Len(dict_calls) = 1
    /\ LET edges == dict_calls[1].edge_list
       IN  \E k \in 1..Len(edges) : \E r \in {RootDir, RelativeRootDir} :
              Converted([edges EXCEPT ![k] = <<edges[k][1], edges[k][2], r>>])

NextDict ==
    \/ convert_edge_list
    \/ convert_reordered
    \/ convert_repeated
    \/ convert_relabelled

SpecDict == InitDict /\ [][NextDict]_vars

(***************************************************************************)
(* Vocabulary of the properties                                            *)
(***************************************************************************)

CandidateSet == {files[k] : k \in 1..Len(files)}

Range(q) == {q[k] : k \in 1..Len(q)}

Count(q, x) == Cardinality({k \in 1..Len(q) : q[k] = x})

\* the first call of analyze_dependencies on the analyzer has returned
FirstRunReturned == Len(returned) >= 1

Finished == pc \in {"returned", "raised"}

EdgeOf(source, target) == <<source, target, RootDir>>

\* the file's text was read and is the sequence c of constructs
Holds(file, c) == disk[file] = [status |-> "ok", content |-> c]

Include_a == Construct("include", Name_a_php)
Include_b == Construct("include", Name_b_php)

(***************************************************************************)
(* C1: analyze_dependencies terminates for every candidate list and every  *)
(* reference graph (self-references and cycles included): in every state   *)
(* the number of extraction calls of the running call, and the depth of    *)
(* the recursion, are at most the number of distinct candidate files, and  *)
(* every step of a running call either ends the call or lessens the work   *)
(* it has left, which is never negative.                                   *)
(***************************************************************************)
\* the work a running call has left: the roots not yet called, the
\* references not yet processed of the calls in progress, and for every
\* candidate not yet visited the most references its text can yield (a
\* construct is found by at most two patterns of a table)
RECURSIVE FramesWork(_)
FramesWork(stk) ==
    IF Len(stk) = 0 THEN 0
    ELSE Len(Head(stk).deps) + 1 - Head(stk).i + FramesWork(Tail(stk))

RECURSIVE UnvisitedWork(_)
UnvisitedWork(S) ==
    IF S = {} THEN 0
    ELSE LET f == CHOOSE y \in S : TRUE
         IN  2 * Len(disk[f].content) + UnvisitedWork(S \ {f})

Work ==
    (Len(files) + 1 - idx) + FramesWork(stack)
    + UnvisitedWork(CandidateSet \ analyzed_files)

C1_ExtractionsBounded ==
    /\ Work >= 0
    /\ Len(extracted) <= Cardinality(CandidateSet)
    /\ Len(stack) <= Cardinality(CandidateSet)

C1_Terminates ==
    /\ []C1_ExtractionsBounded
    /\ [][pc = "running" => (Finished' \/ Work' < Work)]_vars

\* a run over a reference cycle has returned, having extracted from every
\* candidate
C1_Witness ==
    /\ pc = "returned"
    /\ Len(extracted) = Cardinality(CandidateSet)
    /\ \E i, j \in 1..Len(edge_list) :
          /\ edge_list[i][1] = edge_list[j][2]
          /\ edge_list[i][2] = edge_list[j][1]
          /\ edge_list[i][1] \in CandidateSet
          /\ edge_list[i][2] \in CandidateSet

(***************************************************************************)
(* C2: for candidates A and B, where A's only reference is B and B's only  *)
(* reference is A, the edge list returned over {A, B}, in either order,    *)
(* holds the edge A->B once, the edge B->A once, and nothing else.         *)
(***************************************************************************)
TwoFileCycle ==
    /\ files \in {<<File_a, File_b>>, <<File_b, File_a>>}
    /\ Holds(File_a, <<Include_b>>)
    /\ Holds(File_b, <<Include_a>>)

C2_TwoFileCycle ==
    (TwoFileCycle /\ FirstRunReturned) =>
        /\ Len(returned[1]) = 2
        /\ Count(returned[1], EdgeOf(File_a, File_b)) = 1
        /\ Count(returned[1], EdgeOf(File_b, File_a)) = 1

C2_Witness ==
    /\ TwoFileCycle
    /\ files = <<File_b, File_a>>
    /\ pc = "returned"
    /\ calls = 1
    /\ Len(edge_list) = 2

(***************************************************************************)
(* C3: within a resolution run no file is extracted from twice, every      *)
(* extracted file is a candidate, a file is extracted from exactly when it *)
(* is first visited, and when analyze_dependencies returns the Visited Set *)
(* equals the set of candidate files, each of them having been extracted   *)
(* from exactly once by the run that first visited it.                     *)
(***************************************************************************)
C3_ExtractedOnce ==
    /\ \A f \in Range(extracted) : Count(extracted, f) = 1 /\ f \in analyzed_files
    /\ Range(extracted) \subseteq CandidateSet
    /\ pc = "returned" => analyzed_files = CandidateSet
    /\ (pc = "returned" /\ calls = 1) =>
          \A f \in CandidateSet : Count(extracted, f) = 1

\* b.php is the second root and was already reached from a.php: it was
\* extracted once
C3_Witness ==
    /\ pc = "returned"
    /\ calls = 1
    /\ files = <<File_a, File_b>>
    /\ \E k \in 1..Len(edge_list) : edge_list[k] = EdgeOf(File_a, File_b)
    /\ Count(extracted, File_b) = 1

(***************************************************************************)
(* Vocabulary of the properties about references                           *)
(***************************************************************************)

\* the project file that a reference to one of the project's files denotes
Denotes(ref) ==
    CASE ref = Name_a_php -> File_a
      [] ref = Name_b_php -> File_b
      [] ref = Name_c_js -> File_c
      [] ref = <<".", "/", "c", ".", "j", "s">> -> File_c

IsLocalRef(ref) == ref \in {Name_a_php, Name_b_php, Name_c_js, <<".", "/", "c", ".", "j", "s">>}

\* the kinds of construct the pattern table of a file's category looks for
KindsSought(file) ==
    IF endswith(file, <<".", "p", "h", "p">>)
    THEN {"include", "use", "script", "echo_script", "link", "img"}
    ELSE IF endswith(file, <<".", "j", "s">>)
    THEN {"import_from", "require_call", "import_call", "fetch", "ajax", "xhr_open"}
    ELSE IF endswith(file, <<".", "h", "t", "m", "l">>) \/ endswith(file, <<".", "h", "t", "m">>)
    THEN {"script", "link", "img"}
    ELSE IF endswith(file, <<".", "c", "s", "s">>)
    THEN {"css_import", "css_url"}
    ELSE {}

\* the candidates whose text was read, with the positions of their text
ReadCandidates == {f \in CandidateSet : disk[f].status = "ok"}

Positions(f) == 1..Len(disk[f].content)

\* a reference beginning with http://, https://, //, www. or scheme://
External(ref) ==
    \/ \E p \in { <<"h", "t", "t", "p", ":", "/", "/">>,
                  <<"h", "t", "t", "p", "s", ":", "/", "/">>,
                  <<"/", "/">>,
                  <<"w", "w", "w", ".">> } :
          Len(ref) >= Len(p) /\ \A k \in 1..Len(p) : ref[k] = p[k]
    \/ \E n \in 1..Len(ref) :
          /\ n + 3 <= Len(ref)
          /\ \A k \in 1..n : IsWordChar(ref[k])
          /\ ref[n + 1] = ":" /\ ref[n + 2] = "/" /\ ref[n + 3] = "/"

\* a reference holding '${', '}', '+', '<?php', '?>' or a '$identifier'
Dynamic(ref) ==
    \/ \E k \in 1..Len(ref) : ref[k] \in {"}", "+"}
    \/ \E k \in 1..(Len(ref) - 1) :
          \/ ref[k] = "$" /\ (ref[k + 1] = "{" \/ IsLetter(ref[k + 1]) \/ ref[k + 1] = "_")
          \/ ref[k] = "?" /\ ref[k + 1] = ">"
    \/ \E k \in 1..(Len(ref) - 4) :
          <<ref[k], ref[k + 1], ref[k + 2], ref[k + 3], ref[k + 4]>>
              = <<"<", "?", "p", "h", "p">>

\* the extension of a path: from the last dot of its last component on
Extension(path) ==
    LET dots == {k \in 1..Len(path) :
                    /\ path[k] = "."
                    /\ \A j \in (k + 1)..Len(path) : path[j] \notin {".", "/"}}
    IN  IF dots = {} THEN <<>>
        ELSE SubSeq(path, CHOOSE k \in dots : TRUE, Len(path))

\* a path whose extension is one of jpg, jpeg, png, gif, bmp, svg, webp,
\* whatever the case of its letters
Image(path) ==
    lower(Extension(path)) \in
        { <<".", "j", "p", "g">>,
          <<".", "j", "p", "e", "g">>,
          <<".", "p", "n", "g">>,
          <<".", "g", "i", "f">>,
          <<".", "b", "m", "p">>,
          <<".", "s", "v", "g">>,
          <<".", "w", "e", "b", "p">> }

\* the path of the file named by a plain relative reference
UnderRoot(ref) == RootDir \o <<"/">> \o ref

(***************************************************************************)
(* C4 (as stated): when a candidate file's text references another file    *)
(* of the project, the edge with that source and target is in the returned *)
(* edge list exactly once, however often the construct occurs in the text  *)
(* and however many patterns find it.                                      *)
(***************************************************************************)
C4_EdgeExactlyOnce ==
    FirstRunReturned =>
        \A f \in ReadCandidates : \A k \in Positions(f) :
            LET c == disk[f].content[k]
            IN  (IsLocalRef(c.ref) /\ c.kind \in KindsSought(f) /\ Denotes(c.ref) # f)
                    => Count(returned[1], EdgeOf(f, Denotes(c.ref))) = 1

(***************************************************************************)
(* C4 (amended): when a candidate file's text references a file of the     *)
(* project, the edge with that source and target is in the returned edge   *)
(* list once for every match of a pattern on a construct referencing it:   *)
(* at least once, twice when the construct occurs twice in the text, twice *)
(* when two patterns of the table find the construct.                      *)
(***************************************************************************)
\* the patterns of the file's table that find a construct of this kind
Multiplicity(f, kind) ==
    IF kind \notin KindsSought(f) THEN 0
    ELSE IF kind = "echo_script" THEN 2
    ELSE 1

RECURSIVE MatchesTo(_, _, _)
MatchesTo(f, content, target) ==
    IF Len(content) = 0 THEN 0
    ELSE (IF IsLocalRef(Head(content).ref) /\ Denotes(Head(content).ref) = target
          THEN Multiplicity(f, Head(content).kind) ELSE 0)
         + MatchesTo(f, Tail(content), target)

C4_EdgePerMatch ==
    FirstRunReturned =>
        \A f \in ReadCandidates : \A t \in Range(ProjectFiles) :
            Count(returned[1], EdgeOf(f, t)) = MatchesTo(f, disk[f].content, t)

\* a.php names b.php in two constructs and the returned list holds the
\* edge twice
C4_Witness ==
    /\ pc = "returned"
    /\ calls = 1
    /\ File_a \in ReadCandidates
    /\ MatchesTo(File_a, disk[File_a].content, File_b) = 2
    /\ Count(edge_list, EdgeOf(File_a, File_b)) = 2

(***************************************************************************)
(* C5: a reference that begins with http://, https://, //, www. or any     *)
(* scheme:// is never the reference of an edge, whatever exclude_images    *)
(* and handle_dynamic are; a file that references one external URL and one *)
(* candidate file yields only the edge to the candidate file.              *)
(***************************************************************************)
OneExternalOneLocal ==
    /\ files = <<File_a, File_b>>
    /\ Holds(File_b, <<>>)
    /\ disk[File_a].status = "ok"
    /\ \E c \in RichPool :
          /\ External(c.ref)
          /\ disk[File_a].content \in {<<c, Include_b>>, <<Include_b, c>>}

C5_NoExternalEdge ==
    /\ \A k \in 1..Len(edge_refs) : ~External(edge_refs[k].dep)
    /\ (OneExternalOneLocal /\ FirstRunReturned) =>
          returned[1] = <<EdgeOf(File_a, File_b)>>

C5_Witness ==
    /\ OneExternalOneLocal
    /\ ~exclude_images
    /\ ~handle_dynamic
    /\ pc = "returned"
    /\ edge_list = <<EdgeOf(File_a, File_b)>>

(***************************************************************************)
(* C6: with handle_dynamic true, a reference that holds '${', '}', '+',    *)
(* '<?php', '?>' or a '$identifier' is never the reference of an edge, and *)
(* no call of _analyze_file in progress was made for such a reference.     *)
(***************************************************************************)
C6_DynamicSkipped ==
    handle_dynamic =>
        /\ \A k \in 1..Len(edge_refs) : ~Dynamic(edge_refs[k].dep)
        /\ \A k \in 1..(Len(stack) - 1) : ~Dynamic(stack[k].deps[stack[k].i - 1])

\* a.php holds a dynamic reference, was extracted from with handle_dynamic
\* true, and the run has returned
C6_Witness ==
    /\ handle_dynamic
    /\ pc = "returned"
    /\ File_a \in Range(extracted)
    /\ \E k \in Positions(File_a) :
          /\ Dynamic(disk[File_a].content[k].ref)
          /\ disk[File_a].content[k].kind \in KindsSought(File_a)

(***************************************************************************)
(* C7 (as stated): with handle_dynamic false a dynamic reference is not    *)
(* skipped: an edge for it is appended to the edge list.                   *)
(***************************************************************************)
C7_DynamicKeptWhenNotHandled ==
    (~handle_dynamic /\ FirstRunReturned) =>
        \A f \in ReadCandidates : \A k \in Positions(f) :
            LET c == disk[f].content[k]
            IN  (Dynamic(c.ref) /\ ~External(c.ref) /\ c.kind \in KindsSought(f))
                    => \E e \in 1..Len(returned[1]) :
                          returned[1][e] = EdgeOf(f, UnderRoot(c.ref))

(***************************************************************************)
(* C8: with exclude_images true no edge has a target whose extension is    *)
(* one of jpg, jpeg, png, gif, bmp, svg, webp in any case of letters; with *)
(* exclude_images false a reference to such a file that is neither dynamic *)
(* nor external has its edge in the returned list.                         *)
(***************************************************************************)
C8_ImageExclusion ==
    /\ exclude_images => \A k \in 1..Len(edge_list) : ~Image(edge_list[k][2])
    /\ (~exclude_images /\ FirstRunReturned) =>
          \A f \in ReadCandidates : \A k \in Positions(f) :
              LET c == disk[f].content[k]
              IN  (/\ c.kind = "img" /\ c.kind \in KindsSought(f)
                   /\ Image(c.ref) /\ ~Dynamic(c.ref) /\ ~External(c.ref))
                      => \E e \in 1..Len(returned[1]) :
                            returned[1][e] = EdgeOf(f, UnderRoot(c.ref))

\* a.php holds <img src="P.PNG"> beside a reference to b.php and, images
\* excluded, only the edge to b.php was returned
C8_Witness ==
    /\ exclude_images
    /\ pc = "returned"
    /\ files = <<File_a, File_b>>
    /\ Holds(File_a, <<Construct("img", <<"P", ".", "P", "N", "G">>), Include_b>>)
    /\ edge_list = <<EdgeOf(File_a, File_b)>>

(***************************************************************************)
(* C9 (as stated): a read failure of any kind on a candidate file (missing *)
(* file, permission denied, decoding error) is absorbed: no exception      *)
(* leaves analyze_dependencies, the file yields no reference, and the      *)
(* other candidates are processed.                                         *)
(***************************************************************************)
C9_ReadFailureAbsorbed ==
    /\ pc # "raised"
    /\ \A k \in 1..Len(edge_refs) : disk[edge_refs[k].file].status = "ok"
    /\ pc = "returned" => analyzed_files = CandidateSet

(***************************************************************************)
(* C10 (as stated): the Visited Set and the Edge List are fresh at the     *)
(* start of every analyze_dependencies call: a second call on the same     *)
(* analyzer returns an edge list equal to the first, and begins with an    *)
(* empty Visited Set.                                                      *)
(***************************************************************************)
C10_FreshPerCall ==
    /\ Len(returned) >= 2 => returned[2] = returned[1]
    /\ (pc = "running" /\ idx = 1 /\ stack = <<>>) =>
          (analyzed_files = {} /\ edge_list = <<>>)

(***************************************************************************)
(* C11: for the chain index.php -> header.php -> style.css, all three      *)
(* candidates and style.css without references, the returned edge list     *)
(* holds the edge index.php->header.php once, the edge                     *)
(* header.php->style.css once, and nothing else; in general the returned   *)
(* list holds as many edges with source f as f's text has retained         *)
(* references (found by a pattern, not external, not dynamic, not an       *)
(* excluded image), and a candidate without references is never a source.  *)
(***************************************************************************)
Chain ==
    /\ CandidateSet = {File_index, File_header, File_style}
    /\ Holds(File_index, <<Construct("include", Name_header_php)>>)
    /\ Holds(File_header, <<Construct("link", Name_style_css)>>)
    /\ Holds(File_style, <<>>)

\* how many patterns of f's table find the construct c
Finds(f, c) ==
    IF c.kind = "link" /\ lower(Extension(c.ref)) # <<".", "c", "s", "s">> THEN 0
    ELSE Multiplicity(f, c.kind)

RECURSIVE RetainedIn(_, _)
RetainedIn(f, content) ==
    IF Len(content) = 0 THEN 0
    ELSE (IF \/ External(Head(content).ref)
             \/ Dynamic(Head(content).ref)
             \/ (exclude_images /\ Image(Head(content).ref))
          THEN 0 ELSE Finds(f, Head(content)))
         + RetainedIn(f, Tail(content))

\* the retained references of a candidate
Retained(f) == IF disk[f].status = "ok" THEN RetainedIn(f, disk[f].content) ELSE 0

EdgesFrom(q, f) == Cardinality({k \in 1..Len(q) : q[k][1] = f})

C11_AcyclicChain ==
    /\ (Chain /\ FirstRunReturned) =>
          /\ Len(returned[1]) = 2
          /\ Count(returned[1], EdgeOf(File_index, File_header)) = 1
          /\ Count(returned[1], EdgeOf(File_header, File_style)) = 1
    /\ FirstRunReturned =>
          \A f \in CandidateSet : EdgesFrom(returned[1], f) = Retained(f)
    /\ \A k \in 1..Len(edge_list) :
          /\ edge_list[k][1] \in CandidateSet
          /\ Retained(edge_list[k][1]) > 0

\* the chain was resolved from its last file to its first
C11_Witness ==
    /\ Chain
    /\ files = <<File_style, File_header, File_index>>
    /\ pc = "returned"
    /\ calls = 1
    /\ edge_list = <<EdgeOf(File_header, File_style), EdgeOf(File_index, File_header)>>

(***************************************************************************)
(* C12: canonicalization is idempotent, and references that denote the     *)
(* same location under the root directory resolve to the same target: the  *)
(* canonical path of every reference that yields an edge is unchanged by   *)
(* normalising it again and, being absolute, by resolving it again; two    *)
(* references of the spellings b/x.js, ./a/../b/x.js, b//x.js, b/./x.js    *)
(* (or the absolute spellings of that file) have edges with one and the    *)
(* same target, and references to different locations have different ones. *)
(***************************************************************************)
Ref_b_x == <<"b", "/", "x", ".", "j", "s">>
Ref_a_up_b_x == <<".", "/", "a", "/", ".", ".", "/", "b", "/", "x", ".", "j", "s">>

\* the spellings of each location, for the root directories /r and r (the
\* working directory being /w)
Spellings_b_x ==
    { Ref_b_x, Ref_a_up_b_x,
      <<"b", "/", "/", "x", ".", "j", "s">>,
      <<"b", "/", ".", "/", "x", ".", "j", "s">> }
    \cup (IF root_dir = <<"/", "r">>
          THEN { <<"/", "r", "/", "b", "/", "x", ".", "j", "s">>,
                 <<"/", "r", "/", "a", "/", ".", ".", "/", "b", "/", "x", ".", "j", "s">> }
          ELSE { <<"/", "w", "/", "r", "/", "b", "/", "x", ".", "j", "s">>,
                 <<"/", "w", "/", "r", "/", "a", "/", ".", ".", "/", "b", "/", "x", ".", "j", "s">> })

Spellings_a_x == { <<"a", "/", "x", ".", "j", "s">> }

Spellings_up_x ==
    { <<".", ".", "/", "x", ".", "j", "s">>,
      <<".", ".", "/", "y", "/", ".", ".", "/", "x", ".", "j", "s">> }

Spelled(ref) == ref \in Spellings_b_x \cup Spellings_a_x \cup Spellings_up_x

SameLocation(r1, r2) ==
    \E S \in {Spellings_b_x, Spellings_a_x, Spellings_up_x} : r1 \in S /\ r2 \in S

C12_Canonicalization ==
    \A i \in 1..Len(edge_refs) :
        LET c == canonical_path(edge_refs[i].dep, root_dir)
        IN  /\ normpath(c) = c
            /\ isabs(c) => canonical_path(c, root_dir) = c
            /\ \A j \in 1..Len(edge_refs) :
                  (Spelled(edge_refs[i].dep) /\ Spelled(edge_refs[j].dep)) =>
                      (SameLocation(edge_refs[i].dep, edge_refs[j].dep)
                          <=> edge_list[i][2] = edge_list[j][2])

\* a.php includes './a/../b/x.js' and 'b/x.js' and both edges point at
\* /r/b/x.js
C12_Witness ==
    /\ pc = "returned"
    /\ root_dir = <<"/", "r">>
    /\ Len(edge_refs) = 2
    /\ edge_refs[1].dep = Ref_a_up_b_x
    /\ edge_refs[2].dep = Ref_b_x
    /\ edge_list[1][2] = <<"/", "r", "/", "b", "/", "x", ".", "j", "s">>
    /\ edge_list[2][2] = <<"/", "r", "/", "b", "/", "x", ".", "j", "s">>

(***************************************************************************)
(* C13 (as stated): for every edge list that holds a reference cycle, the  *)
(* pure two-node cycle A->B, B->A included, the ASCII tree that            *)
(* visualize_ascii_graph prints has a line marked '(circular reference)'.  *)
(***************************************************************************)
EdgeSet == {<<edge_list[k][1], edge_list[k][2]>> : k \in 1..Len(edge_list)}

\* the nodes reached from the nodes of S by one or more edges
RECURSIVE ReachedFrom(_, _)
ReachedFrom(S, acc) ==
    LET step == acc \cup {e[2] : e \in {d \in EdgeSet : d[1] \in S \cup acc}}
    IN  IF step = acc THEN acc ELSE ReachedFrom(S, step)

OnCycle(n) == n \in ReachedFrom({n}, {})

HasCycle == \E e \in EdgeSet : OnCycle(e[1])

CircularMarked == \E k \in 1..Len(graph.lines) : graph.lines[k].circular

C13_CycleMarked ==
    (graph.printed /\ HasCycle) => CircularMarked

(***************************************************************************)
(* C14: with an empty candidate file list analyze_dependencies raises      *)
(* nothing, extracts from no file, returns an empty edge list from every   *)
(* call and leaves the Visited Set empty.                                  *)
(***************************************************************************)
C14_EmptyCandidateList ==
    files = <<>> =>
        /\ pc # "raised"
        /\ analyzed_files = {}
        /\ extracted = <<>>
        /\ edge_list = <<>>
        /\ \A k \in 1..Len(returned) : returned[k] = <<>>

C14_Witness ==
    /\ files = <<>>
    /\ pc = "returned"
    /\ calls = 1
    /\ returned = << <<>> >>

(***************************************************************************)
(* C15: when names are given to find_entry_points, a FileNotFoundError is  *)
(* raised at the first name that is absent from the root tree (no later    *)
(* name is looked up) and no list is returned, partial or not; when every  *)
(* given name is present, the list returned holds one path per name, in    *)
(* the order given; when no name is given and the tree holds no eligible   *)
(* file, a FileNotFoundError is raised as well.                            *)
(***************************************************************************)
NamesOf(listing) == {listing[k].name : k \in 1..Len(listing)}

InTree(name) == name \in NamesOf(tree.files) \cup NamesOf(tree.sub.files)

\* the path of a file of the tree: in the root directory if it is there,
\* else in the subdirectory
PathInTree(name) ==
    IF name \in NamesOf(tree.files) THEN <<"/", "r", "/">> \o name
    ELSE <<"/", "r", "/">> \o tree.sub.name \o <<"/">> \o name

AbsentNames == {k \in 1..Len(names.list) : ~InTree(names.list[k])}

\* the files of the pool that discovery accepts: a.php (of the largest size
\* allowed) and c.js, outside a library directory
EligibleEntries == { [name |-> <<"a", ".", "p", "h", "p">>, size |-> 102400], [name |-> <<"c", ".", "j", "s">>, size |-> 1] }

NoEligibleFile ==
    /\ \A k \in 1..Len(tree.files) : tree.files[k] \notin EligibleEntries
    /\ \/ tree.sub.name = <<"l", "i", "b">>
       \/ \A k \in 1..Len(tree.sub.files) : tree.sub.files[k] \notin EligibleEntries

ScanFinished == scan_pc \in {"returned", "raised"}

C15_Discovery ==
    /\ (names.list # <<>> /\ AbsentNames # {}) =>
          /\ scan_pc # "returned"
          /\ scan_result.outcome # "returned"
          /\ \A k \in AbsentNames : name_idx <= k
          /\ ScanFinished =>
                /\ scan_result = [outcome |-> "FileNotFoundError", value |-> <<>>]
                /\ name_idx \in AbsentNames
    /\ (names.list # <<>> /\ AbsentNames = {} /\ ScanFinished) =>
          /\ scan_result.outcome = "returned"
          /\ Len(scan_result.value) = Len(names.list)
          /\ \A k \in 1..Len(names.list) :
                scan_result.value[k] = PathInTree(names.list[k])
    /\ (names.list = <<>> /\ NoEligibleFile /\ ScanFinished) =>
          scan_result = [outcome |-> "FileNotFoundError", value |-> <<>>]

\* a.php was found in the subdirectory, z.php is absent: the error was
\* raised with one path collected and none returned
C15_Witness ==
    /\ names = [given |-> TRUE, list |-> << <<"a", ".", "p", "h", "p">>, <<"z", ".", "p", "h", "p">> >>]
    /\ scan_pc = "raised"
    /\ entry_points = << <<"/", "r", "/", "s", "/", "a", ".", "p", "h", "p">> >>
    /\ scan_result.outcome = "FileNotFoundError"

(***************************************************************************)
(* C16: a call of _analyze_file on a file that is already in the Visited   *)
(* Set changes nothing: as a root call it leaves the Edge List, the        *)
(* Visited Set and the extractions as they are and starts no loop; as a    *)
(* recursive call (made after the caller appended the edge to the visited  *)
(* target) it leaves the Visited Set and the extractions as they are and   *)
(* starts no loop; in every step the edges already appended stay in place. *)
(***************************************************************************)
RootCallOnVisited ==
    /\ pc = "running"
    /\ stack = <<>>
    /\ idx <= Len(files)
    /\ files[idx] \in analyzed_files

\* the step appends an edge whose target is a visited candidate
RecursiveCallOnVisited ==
    /\ pc = "running"
    /\ Len(edge_list') = Len(edge_list) + 1
    /\ edge_list'[Len(edge_list')][2] \in CandidateSet \cap analyzed_files

EdgesStay ==
    /\ Len(edge_list') >= Len(edge_list)
    /\ SubSeq(edge_list', 1, Len(edge_list)) = edge_list

C16_AnalyzeFileIdempotent ==
    [][ /\ RootCallOnVisited =>
              /\ edge_list' = edge_list
              /\ analyzed_files' = analyzed_files
              /\ extracted' = extracted
              /\ stack' = <<>>
              /\ idx' = idx + 1
        /\ RecursiveCallOnVisited =>
              /\ analyzed_files' = analyzed_files
              /\ extracted' = extracted
              /\ Len(stack') <= Len(stack)
        /\ pc = "running" => EdgesStay ]_vars

\* b.php was visited from a.php and then called as the second root: one
\* extraction each, one edge
C16_Witness ==
    /\ pc = "running"
    /\ calls = 1
    /\ files = <<File_a, File_b>>
    /\ idx = 3
    /\ extracted = <<File_a, File_b>>
    /\ edge_list = <<EdgeOf(File_a, File_b)>>

(***************************************************************************)
(* C17: edges are appended depth-first, in pre-order.  For two references  *)
(* r1 before r2 in the extraction order of one call on f, the edge f->r1   *)
(* is before the edge f->r2, and every edge produced by the recursion into *)
(* r1 (by the call made for f->r1, or by a call made within it) is after   *)
(* f->r1 and before f->r2; the first edge of a recursive call has the      *)
(* target of the calling edge as its source; and no step of a running call *)
(* removes or reorders an edge.                                            *)
(***************************************************************************)
\* edge k was appended by the call made for edge p, or by a call within it
RECURSIVE ProducedWithin(_, _)
ProducedWithin(p, k) ==
    /\ edge_refs[k].via > 0
    /\ \/ edge_refs[k].via = p
       \/ ProducedWithin(p, edge_refs[k].via)

SameCall(p, q) ==
    /\ edge_refs[p].via = edge_refs[q].via
    /\ edge_refs[p].file = edge_refs[q].file

C17_PreOrder ==
    \A p \in 1..Len(edge_refs) :
        /\ edge_refs[p].via < p
        /\ edge_refs[p].via > 0 => edge_list[p][1] = edge_list[edge_refs[p].via][2]
        /\ \A q \in 1..Len(edge_refs) :
              (SameCall(p, q) /\ edge_refs[p].pos < edge_refs[q].pos) =>
                  /\ p < q
                  /\ \A k \in 1..Len(edge_refs) :
                        ProducedWithin(p, k) => (p < k /\ k < q)

C17_DepthFirstPreOrder ==
    /\ []C17_PreOrder
    /\ [][pc = "running" => EdgesStay]_vars

\* a.php references b.php, then c.js; b.php references c.js: the edge of
\* the recursion into b.php lies between the two edges of a.php
C17_Witness ==
    /\ pc = "returned"
    /\ calls = 1
    /\ edge_list = <<EdgeOf(File_a, File_b), EdgeOf(File_b, File_c), EdgeOf(File_a, File_c)>>
    /\ edge_refs[2].via = 1
    /\ edge_refs[3].via = 0

(***************************************************************************)
(* C18: whenever the canonical target of an appended edge is a candidate   *)
(* file, the resolver has recursed into it: from the step that appends the *)
(* edge on, the target is in the Visited Set; if the target was not        *)
(* visited before, it was extracted from by this call, and when the run    *)
(* returns the edges appended by the call made for this edge are as many   *)
(* as the target has retained references; if it was visited before, the    *)
(* call made for this edge appended none.                                  *)
(***************************************************************************)
CanonicalTarget(p) == canonical_path(edge_refs[p].dep, root_dir)

EdgesVia(p) == Cardinality({k \in 1..Len(edge_refs) : edge_refs[k].via = p})

C18_RecursesIntoCandidates ==
    \A p \in 1..Len(edge_refs) :
        LET target == CanonicalTarget(p)
        IN  target \in CandidateSet =>
                /\ target \in analyzed_files
                /\ edge_refs[p].fresh =>
                      /\ target \in Range(extracted)
                      /\ EdgesVia(p) <= Retained(target)
                      /\ pc = "returned" => EdgesVia(p) = Retained(target)
                /\ ~edge_refs[p].fresh => EdgesVia(p) = 0

\* a.php <-> b.php from the root a.php: the edge to b.php led to the call
\* that appended the edge back to a.php, which led to no edge
C18_Witness ==
    /\ pc = "returned"
    /\ calls = 1
    /\ files = <<File_a, File_b>>
    /\ edge_list = <<EdgeOf(File_a, File_b), EdgeOf(File_b, File_a)>>
    /\ edge_refs[1].fresh
    /\ ~edge_refs[2].fresh
    /\ EdgesVia(1) = 1
    /\ EdgesVia(2) = 0

(***************************************************************************)
(* C19: the external filter comes before the dynamic classification. A     *)
(* literal that is external (and so one that is external and dynamic, as   *)
(* https://h/${v}) is not in the list that extract_dependencies classifies *)
(* with is_dynamic, not in the list the loop of _analyze_file runs over,   *)
(* and is the reference of no edge, whatever handle_dynamic is; the list   *)
(* classified is exactly the non-external literals found, in order.        *)
(***************************************************************************)
\* the literals the patterns of the file's category find in its text
FoundLiterals(file) ==
    IF disk[file].status = "ok"
    THEN UNION { Range(findall(patterns_for(file)[k], disk[file].content)) :
                   k \in 1..Len(patterns_for(file)) }
    ELSE {}

\* the literals the loops of the calls in progress run over
ReachResolver == UNION { Range(stack[k].deps) : k \in 1..Len(stack) }

Ref_https_dynamic == <<"h", "t", "t", "p", "s", ":", "/", "/", "h", "/", "$", "{", "v", "}">>

C19_ExternalBeforeDynamic ==
    /\ \A f \in Range(extracted) :
          LET classified == Range(dependencies_classified(f, disk[f]))
          IN  /\ \A r \in classified : ~_is_external_dependency(r)
              /\ classified = {r \in FoundLiterals(f) : ~_is_external_dependency(r)}
    /\ \A r \in ReachResolver : ~_is_external_dependency(r) /\ ~is_dynamic(r)
    /\ \A k \in 1..Len(edge_refs) : ~_is_external_dependency(edge_refs[k].dep)

\* a.php includes b.php and loads https://h/${v}, handle_dynamic is off:
\* a.php was extracted from, the only edge is the one to b.php
C19_Witness ==
    /\ pc = "returned"
    /\ ~handle_dynamic
    /\ File_a \in DOMAIN disk
    /\ Holds(File_a, <<Include_b, Construct("script", Ref_https_dynamic)>>)
    /\ _is_external_dependency(Ref_https_dynamic)
    /\ is_dynamic(Ref_https_dynamic)
    /\ Ref_https_dynamic \in FoundLiterals(File_a)
    /\ File_a \in Range(extracted)
    /\ edge_list = <<EdgeOf(File_a, File_b)>>

(***************************************************************************)
(* C20: in every state, every edge of the edge list is a triple whose      *)
(* third component is root_dir; its source is in the Visited Set; its      *)
(* reference was found in the source's text and is not external, not       *)
(* dynamic and, when exclude_images is set, its canonical target is no     *)
(* image; source and target are root_dir, a '/', and a relative path in    *)
(* normal form without backslash: the path of the source file and of the   *)
(* canonical target relative to root_dir.                                  *)
(***************************************************************************)
Anchored(p) == startswith(p, root_dir \o <<"/">>)

RelativePart(p) == SubSeq(p, Len(root_dir) + 2, Len(p))

RootRelative(rel) ==
    /\ Len(rel) > 0
    /\ ~isabs(rel)
    /\ normpath(rel) = rel
    /\ \A i \in 1..Len(rel) : rel[i] # "\\"

DisplayForm(p, designated) ==
    /\ Anchored(p)
    /\ RootRelative(RelativePart(p))
    /\ RelativePart(p) = relpath(designated, root_dir)

C20_EdgeShape ==
    /\ Len(edge_refs) = Len(edge_list)
    /\ \A k \in 1..Len(edge_list) :
          LET edge   == edge_list[k]
              ref    == edge_refs[k]
              target == canonical_path(ref.dep, root_dir)
          IN  /\ Len(edge) = 3
              /\ edge[3] = root_dir
              /\ edge[1] \in analyzed_files
              /\ ref.file \in analyzed_files
              /\ ref.dep \in FoundLiterals(ref.file)
              /\ ~_is_external_dependency(ref.dep)
              /\ ~is_dynamic(ref.dep)
              /\ exclude_images => ~is_image_file(target)
              /\ DisplayForm(edge[1], ref.file)
              /\ DisplayForm(edge[2], target)

\* in the middle of the call for a.php, whose first reference ../x.js leads
\* out of the root directory /r: the edge's target is /r/../x.js
C20_Witness ==
    /\ pc = "running"
    /\ root_dir = RootDir
    /\ files = <<File_a>>
    /\ Len(stack) = 1
    /\ edge_list = << <<File_a, <<"/", "r", "/", ".", ".", "/", "x", ".", "j", "s">>, RootDir>> >>
    /\ edge_refs[1].dep = <<".", ".", "/", "x", ".", "j", "s">>
    /\ canonical_path(edge_refs[1].dep, root_dir) = <<"/", "x", ".", "j", "s">>

(***************************************************************************)
(* C21: the mapping edge_list_to_dict returns for an edge list has target  *)
(* t in mapping[s] exactly when an edge (s, t, _) is in the list, and its  *)
(* keys are exactly the sources of the edges; the same edges in another    *)
(* order, with an edge repeated, or with another root directory in an edge *)
(* give the same mapping.                                                  *)
(***************************************************************************)
HasEdge(edges, s, t) == \E k \in 1..Len(edges) : edges[k][1] = s /\ edges[k][2] = t

IsAdjacencyOf(dependencies, edges) ==
    /\ DOMAIN dependencies = {edges[k][1] : k \in 1..Len(edges)}
    /\ \A s \in DOMAIN dependencies : dependencies[s] # {}
    /\ \A s \in {File_a, File_b} : \A t \in {File_a, File_b} :
          (s \in DOMAIN dependencies /\ t \in dependencies[s]) <=> HasEdge(edges, s, t)

C21_AdjacencyMapping ==
    /\ \A c \in 1..Len(dict_calls) :
          IsAdjacencyOf(dict_calls[c].dependencies, dict_calls[c].edge_list)
    /\ \A c \in 2..Len(dict_calls) :
          dict_calls[c].dependencies = dict_calls[1].dependencies

\* a.php -> b.php twice, under two root directories, and a.php -> a.php;
\* then the last two exchanged: both times a.php maps to {a.php, b.php}
\* and b.php is no key
C21_Witness ==
    /\ Len(dict_calls) = 2
    /\ dict_calls[1].edge_list = << <<File_a, File_b, RootDir>>,
                                    <<File_a, File_b, RelativeRootDir>>,
                                    <<File_a, File_a, RootDir>> >>
    /\ dict_calls[2].edge_list = << <<File_a, File_b, RootDir>>,
                                    <<File_a, File_a, RootDir>>,
                                    <<File_a, File_b, RelativeRootDir>> >>
    /\ DOMAIN dict_calls[2].dependencies = {File_a}
    /\ dict_calls[2].dependencies[File_a] = {File_a, File_b}

(***************************************************************************)
(* C22: the DependencyAnalyzer of src/analyzer and the one of              *)
(* src/modernizer, constructed with the same candidate list, root_dir,     *)
(* flags and files and stepped side by side, have in every state the same  *)
(* Visited Set, the same edge list and the same control point, and have    *)
(* returned the same edge lists.                                           *)
(***************************************************************************)
C22_TwinsAgree ==
    /\ twin.analyzed_files = analyzed_files
    /\ twin.edge_list = edge_list
    /\ twin.pc = pc
    /\ twin.idx = idx
    /\ Len(twin.stack) = Len(stack)
    /\ twin.returned = returned

\* a.php <-> b.php with script c.js in b.php: both have returned the three
\* edges and visited the three files
C22_Witness ==
    /\ pc = "returned"
    /\ twin.pc = "returned"
    /\ files = <<File_a, File_b, File_c>>
    /\ Len(twin.returned) = 1
    /\ twin.returned[1] = <<EdgeOf(File_a, File_b), EdgeOf(File_b, File_a), EdgeOf(File_b, File_c)>>
    /\ twin.analyzed_files = {File_a, File_b, File_c}

(***************************************************************************)
(* C23: in every state the Visited Set is a subset of the candidate files: *)
(* every file extracted from and every file of a call in progress is a     *)
(* candidate, every edge source is a candidate, and a file that is not a   *)
(* candidate is the source of no edge even when it is an edge target and   *)
(* holds references itself.                                                *)
(***************************************************************************)
Sources == {edge_list[k][1] : k \in 1..Len(edge_list)}

Targets == {edge_list[k][2] : k \in 1..Len(edge_list)}

C23_VisitedAreCandidates ==
    /\ analyzed_files \subseteq CandidateSet
    /\ Range(extracted) \subseteq CandidateSet
    /\ \A k \in 1..Len(stack) : stack[k].file \in CandidateSet
    /\ Sources \subseteq CandidateSet
    /\ \A t \in Targets \ CandidateSet :
          /\ t \notin analyzed_files
          /\ t \notin Range(extracted)
          /\ t \notin Sources

\* only a.php is a candidate; it includes b.php, which includes a.php and
\* loads c.js: the one edge is a.php -> b.php and b.php was not visited
C23_Witness ==
    /\ pc = "returned"
    /\ calls = 1
    /\ files = <<File_a>>
    /\ File_b \in DOMAIN disk
    /\ Holds(File_a, <<Include_b>>)
    /\ Holds(File_b, <<Include_a, Construct("script", Name_c_js)>>)
    /\ edge_list = <<EdgeOf(File_a, File_b)>>
    /\ analyzed_files = {File_a}
    /\ File_b \in Targets \ CandidateSet

(***************************************************************************)
(* C24: extract_dependencies returns no reference that is_dynamic accepts, *)
(* in either class: no call of _analyze_file runs over a dynamic           *)
(* reference, so the test `if self.is_dynamic(dep)` is false at every      *)
(* iteration, with handle_dynamic on and off; and two resolvers built with *)
(* the same arguments except opposite values of handle_dynamic have in     *)
(* every state the same edge list and have returned the same edge lists.   *)
(***************************************************************************)
NoDynamicIn(stk) ==
    \A k \in 1..Len(stk) : \A j \in 1..Len(stk[k].deps) : ~Dynamic(stk[k].deps[j])

BranchNotTaken ==
    /\ Len(stack) > 0 =>
          LET top == stack[Len(stack)]
          IN  /\ ~is_dynamic(top.deps[top.i])
              /\ ~skip_dynamic(top.deps[top.i], TRUE)
    /\ Len(twin.stack) > 0 =>
          LET top == twin.stack[Len(twin.stack)]
          IN  ~is_dynamic_analyzer(top.deps[top.i])

C24_DynamicBranchDead ==
    /\ NoDynamicIn(stack)
    /\ NoDynamicIn(twin.stack)
    /\ BranchNotTaken
    /\ twin.handle_dynamic = ~handle_dynamic
    /\ twin.pc = pc
    /\ twin.edge_list = edge_list
    /\ twin.analyzed_files = analyzed_files
    /\ twin.returned = returned

\* a.php holds a dynamic reference that is matched and not external; the
\* resolver without handle_dynamic and the one with it have both returned
\* the same list, which has an edge
C24_Witness ==
    /\ ~handle_dynamic
    /\ twin.handle_dynamic
    /\ pc = "returned"
    /\ twin.pc = "returned"
    /\ File_a \in Range(extracted)
    /\ \E k \in Positions(File_a) :
          /\ Dynamic(disk[File_a].content[k].ref)
          /\ ~External(disk[File_a].content[k].ref)
          /\ disk[File_a].content[k].kind \in KindsSought(File_a)
    /\ Len(edge_list) > 0
    /\ twin.returned = returned

====
